---------------------------- MODULE Spec2Model ----------------------------
(***************************************************************************)
(* A model of the resilient-sdk validation helpers                         *)
(* (resilient_sdk/util/sdk_validate_helpers.py, sdk_validate_configs.py).  *)
(*                                                                         *)
(* Text is a sequence of one-character strings.  Python indices are        *)
(* 0-based: the Python character s[i] is the element s[i + 1] here.        *)
(* An SDKValidateIssue is a record [name, description, severity,           *)
(* solution]; a description produced by str.format is kept as the pair of  *)
(* the template and the tuple of the positional arguments put into it.     *)
(***************************************************************************)
EXTENDS Integers, Sequences, FiniteSets, TLC

VARIABLES
    pc,               \* position of selftest_run_selftestpy
    package_name,     \* argument package_name
    path_app_config,  \* kwargs.get("path_app_config"): None or a path
    environ,          \* os.environ[APP_CONFIG_FILE]; None when not set
    proc,             \* the Popen object and what the child did
    details,          \* local variable details (stderr decoded)
    result,           \* what the call returned or raised; None before
    call,             \* a package-file check being called: its name and arguments
    ret,              \* what that check returned or raised; None before
    circuits          \* the lock file of resilient-circuits and the processes in run()

selftest_vars == <<pc, package_name, path_app_config, environ, proc, details, result>>

None == "None"

\* the element of a set of one element; {e(x) : x \in {v}} is e of the value
\* of v, computed once however often e reads it, as a local variable is
TheOne(S) == CHOOSE x \in S : TRUE

(***************************************************************************)
(* Bounds of the model.                                                    *)
(***************************************************************************)
\* Longest output of the child, in fragments of Fragments.
MaxFrags == 3
\* Largest exit code of the child.
MaxReturnCode == 2

(***************************************************************************)
(* Python str operations.                                                  *)
(***************************************************************************)
Max(a, b) == IF a >= b THEN a ELSE b
Min(a, b) == IF a <= b THEN a ELSE b

\* sub occurs in s at the 0-based index i
OccursAt(s, sub, i) ==
    /\ i >= 0
    /\ i + Len(sub) <= Len(s)
    /\ \A k \in 1..Len(sub) : s[i + k] = sub[k]

\* str.find: the lowest index of sub in s, -1 when there is none
find(s, sub) ==
    LET hits == {i \in 0..Len(s) : OccursAt(s, sub, i)}
    IN  IF hits = {} THEN -1 ELSE CHOOSE i \in hits : \A j \in hits : i <= j

\* str.rfind: the highest index of sub in s, -1 when there is none
rfind(s, sub) ==
    LET hits == {i \in 0..Len(s) : OccursAt(s, sub, i)}
    IN  IF hits = {} THEN -1 ELSE CHOOSE i \in hits : \A j \in hits : i >= j

\* sub in s
Contains(s, sub) == find(s, sub) # -1

\* a slice bound as Python clamps it: a negative bound counts from the end
ClampIndex(s, i) ==
    IF i < 0 THEN Max(Len(s) + i, 0) ELSE Min(i, Len(s))

\* s[start:stop]
Slice(s, start, stop) ==
    LET lo == ClampIndex(s, start)
        hi == ClampIndex(s, stop)
    IN  IF lo >= hi THEN <<>> ELSE SubSeq(s, lo + 1, hi)

\* s[start:]
SliceFrom(s, start) == Slice(s, start, Len(s))

\* the characters str.strip() removes that the model's texts can hold
Whitespace == {" ", "\t", "\n", "\r"}

\* str.strip()
strip(s) ==
    LET keep == {i \in 1..Len(s) : s[i] \notin Whitespace}
    IN  IF keep = {} THEN <<>>
        ELSE LET first == CHOOSE i \in keep : \A j \in keep : i <= j
                 last  == CHOOSE i \in keep : \A j \in keep : i >= j
             IN  SubSeq(s, first, last)

\* str.replace(old, new) for a one-character old
RECURSIVE replace(_, _, _)
replace(s, old, new) ==
    IF s = <<>> THEN <<>>
    ELSE (IF Head(s) = old THEN new ELSE <<Head(s)>>) \o replace(Tail(s), old, new)

\* str.startswith
startswith(s, prefix) == OccursAt(s, prefix, 0)

\* template.format(*args)
Format(msg, args) == [msg |-> msg, args |-> args]

(***************************************************************************)
(* difflib.SequenceMatcher(None, a, b) without junk: sequences shorter     *)
(* than the 200 elements from which difflib drops popular elements.        *)
(* Indices are 0-based as in Python; a ratio is the pair <<2 * M, T>> of   *)
(* the fraction 2.0 * M / T.                                               *)
(***************************************************************************)
\* a[i:i+k] and b[j:j+k] lie in the ranges and are equal
IsBlock(a, b, i, j, k, ahi, bhi) ==
    /\ i + k <= ahi
    /\ j + k <= bhi
    /\ \A d \in 1..k : a[i + d] = b[j + d]

\* find_longest_match: the longest block a[i:i+k] = b[j:j+k] in the ranges,
\* of the longest the one starting earliest in a, then earliest in b
find_longest_match(a, b, alo, ahi, blo, bhi) ==
    LET astarts == alo..(ahi - 1)
        bstarts == blo..(bhi - 1)
        HasBlock(k) == \E i \in astarts, j \in bstarts : IsBlock(a, b, i, j, k, ahi, bhi)
        k == CHOOSE n \in 0..Min(ahi - alo, bhi - blo) :
                 /\ n = 0 \/ HasBlock(n)
                 /\ ~HasBlock(n + 1)
    IN  IF k = 0 THEN <<alo, blo, 0>>
        ELSE LET StartsAt(i) == \E j \in bstarts : IsBlock(a, b, i, j, k, ahi, bhi)
                 besti == CHOOSE i \in astarts :
                              StartsAt(i) /\ \A y \in alo..(i - 1) : ~StartsAt(y)
                 bestj == CHOOSE j \in bstarts :
                              /\ IsBlock(a, b, besti, j, k, ahi, bhi)
                              /\ \A y \in blo..(j - 1) : ~IsBlock(a, b, besti, y, k, ahi, bhi)
             IN  <<besti, bestj, k>>

\* the matching blocks of the ranges, in order
RECURSIVE matching_blocks(_, _, _, _, _, _)
matching_blocks(a, b, alo, ahi, blo, bhi) ==
    LET m == find_longest_match(a, b, alo, ahi, blo, bhi)
        i == m[1]
        j == m[2]
        k == m[3]
    IN  IF k = 0 THEN <<>>
        ELSE (IF alo < i /\ blo < j
              THEN matching_blocks(a, b, alo, i, blo, j) ELSE <<>>)
             \o <<m>>
             \o (IF i + k < ahi /\ j + k < bhi
                 THEN matching_blocks(a, b, i + k, ahi, j + k, bhi) ELSE <<>>)

\* get_matching_blocks: the blocks and the closing <<len(a), len(b), 0>>
get_matching_blocks(a, b) ==
    matching_blocks(a, b, 0, Len(a), 0, Len(b)) \o << <<Len(a), Len(b), 0>> >>

RECURSIVE SumSizes(_)
SumSizes(blocks) ==
    IF blocks = <<>> THEN 0 ELSE Head(blocks)[3] + SumSizes(Tail(blocks))

\* _calculate_ratio
calculate_ratio(matches, length) ==
    IF length > 0 THEN <<2 * matches, length>> ELSE <<1, 1>>

\* SequenceMatcher(None, a, b).ratio()
ratio(a, b) == calculate_ratio(SumSizes(get_matching_blocks(a, b)), Len(a) + Len(b))

\* how often x is an element of s
Count(s, x) == Cardinality({i \in 1..Len(s) : s[i] = x})

\* SequenceMatcher(None, a, b).quick_ratio(): elements counted as a multiset
quick_ratio(a, b) ==
    LET elements == {a[i] : i \in 1..Len(a)}
        common[S \in SUBSET elements] ==
            IF S = {} THEN 0
            ELSE LET x == CHOOSE y \in S : TRUE
                 IN  Min(Count(a, x), Count(b, x)) + common[S \ {x}]
    IN  calculate_ratio(common[elements], Len(a) + Len(b))

\* SequenceMatcher(None, a, b).real_quick_ratio(): lengths only
real_quick_ratio(a, b) == calculate_ratio(Min(Len(a), Len(b)), Len(a) + Len(b))

\* r >= c and r < c for ratios
RatioGE(r, c) == r[1] * c[2] >= c[1] * r[2]
RatioLT(r, c) == ~RatioGE(r, c)

(***************************************************************************)
(* SDKValidateIssue and the catalog entry of the run-selftest rule.        *)
(***************************************************************************)
SEVERITY_LEVEL_CRITICAL == "CRITICAL"
SEVERITY_LEVEL_WARN == "WARNING"
SEVERITY_LEVEL_INFO == "INFO"
SEVERITY_LEVEL_DEBUG == "DEBUG"

\* stands for a constructor argument the call leaves out
NOT_GIVEN == "<not given>"

SDKValidateIssue(name, description, severity, solution) ==
    [name |-> name, description |-> description,
     severity |-> severity, solution |-> solution]

\* selftest_attributes[3]: execute selftest and check how it went
selftest_attributes_3 ==
    [fail_name |-> "selftest.py failed",
     fail_msg |-> "selftest.py failed  for {0}. Details: {1}",
     fail_solution |-> "Please check your configuration values and make sure selftest.py is properly implemented",
     fail_severity |-> SEVERITY_LEVEL_CRITICAL,
     missing_name |-> "selftest.py not implemented",
     missing_msg |-> "selftest.py not implemented for {0}",
     missing_severity |-> SEVERITY_LEVEL_CRITICAL,
     missing_solution |-> "selftest.py is a recommended check that should be implemented. More info <TODO: LINK>",
     error_name |-> "selftest.py failed",
     error_msg |-> "While running selftest.py, 'resilient-circuits' failed to connect to server. Details: {0}",
     error_severity |-> SEVERITY_LEVEL_CRITICAL,
     pass_name |-> "selftest.py success",
     pass_msg |-> "selftest.py successfully ran for '{0}'"]

(***************************************************************************)
(* Literals the code searches the child's stderr for.                      *)
(***************************************************************************)
OPEN_BRACE == <<"{">>
CLOSE_BRACE == <<"}">>
ERROR_TOKEN == <<"E", "R", "R", "O", "R">>
\* "'state': 'unimplemented'"
UNIMPLEMENTED_STATE == <<"'", "s", "t", "a", "t", "e", "'", ":", " ", "'", "u", "n", "i", "m", "p", "l", "e", "m", "e", "n", "t", "e", "d", "'">>

(***************************************************************************)
(* What the child process can write and how it can end.                    *)
(***************************************************************************)
\* the word alone, without the 'state': key before it
UNIMPLEMENTED_WORD == <<"u", "n", "i", "m", "p", "l", "e", "m", "e", "n", "t", "e", "d">>

Fragments ==
    {OPEN_BRACE, CLOSE_BRACE, <<"\n">>, <<"\t">>, <<"a">>,
     ERROR_TOKEN, UNIMPLEMENTED_STATE, UNIMPLEMENTED_WORD}

RECURSIVE TextsUpTo(_)
TextsUpTo(n) ==
    IF n = 0 THEN {<<>>}
    ELSE LET shorter == TextsUpTo(n - 1)
         IN  shorter \cup {t \o f : t \in shorter, f \in Fragments}

StderrTexts == TextsUpTo(MaxFrags)
StdoutTexts == {<<>>, UNIMPLEMENTED_STATE}
\* a child killed by signal 9 has returncode -9
ReturnCodes == {-9} \cup (0..MaxReturnCode)
PackageNames == {<<"f", "n", "_", "a">>, <<"p">>}
AppConfigPaths == {None, "/tmp/app.config"}

(***************************************************************************)
(* selftest_run_selftestpy.                                                *)
(***************************************************************************)
Returned(success, issue) == [kind |-> "return", success |-> success, issue |-> issue]
Raised(exception) == [kind |-> "raise", exception |-> exception]

\* line 224: the text between the last "{" and the last "}" of stderr
fail_details(text) ==
    replace(replace(strip(Slice(text, rfind(text, OPEN_BRACE) + 1, rfind(text, CLOSE_BRACE))),
                    "\n", <<".", " ">>), "\t", <<" ">>)

\* error_details searching from the front (str.find for str.rfind)
error_details_first_occurrence(text) ==
    replace(replace(strip(SliceFrom(text, find(text, ERROR_TOKEN))),
                    "\n", <<".", " ">>), "\t", <<" ">>)

\* line 233: stderr from the last "ERROR" on
error_details(text) ==
    replace(replace(strip(SliceFrom(text, rfind(text, ERROR_TOKEN))),
                    "\n", <<".", " ">>), "\t", <<" ">>)

\* found_unimplemented taking index 0 for "not found"
found_unimplemented_positive_index(text) == find(text, UNIMPLEMENTED_STATE) > 0

\* line 242: stderr reports the state unimplemented
found_unimplemented(text) == find(text, UNIMPLEMENTED_STATE) # -1

\* PassIssue with the solution of the failure
PassIssue_with_fail_solution(attr_dict, name) ==
    SDKValidateIssue(attr_dict.pass_name, Format(attr_dict.pass_msg, <<name>>),
                     SEVERITY_LEVEL_DEBUG, attr_dict.fail_solution)

\* lines 251-256
PassIssue(attr_dict, name) ==
    SDKValidateIssue(attr_dict.pass_name, Format(attr_dict.pass_msg, <<name>>),
                     SEVERITY_LEVEL_DEBUG, "")

\* the Issue of a selftest that is not implemented, taken as a warning
MissingIssue_as_warning(attr_dict, name) ==
    SDKValidateIssue(attr_dict.missing_name, Format(attr_dict.missing_msg, <<name>>),
                     SEVERITY_LEVEL_WARN, attr_dict.missing_solution)

\* lines 243-248
MissingIssue(attr_dict, name) ==
    SDKValidateIssue(attr_dict.missing_name, Format(attr_dict.missing_msg, <<name>>),
                     attr_dict.missing_severity, attr_dict.missing_solution)

FailIssue(attr_dict, name, text) ==
    SDKValidateIssue(attr_dict.fail_name,
                     Format(attr_dict.fail_msg, <<name, fail_details(text)>>),
                     attr_dict.fail_severity, attr_dict.fail_solution)

ErrorIssue(attr_dict, text) ==
    SDKValidateIssue(attr_dict.error_name,
                     Format(attr_dict.error_msg, <<error_details(text)>>),
                     attr_dict.error_severity, NOT_GIVEN)

\* selftest_result with the first test written returncode >= 1 and
\* leading to the connection-error branch
selftest_result_fail_as_error(attr_dict, name, returncode, text) ==
    IF returncode >= 1 THEN Returned(FALSE, ErrorIssue(attr_dict, text))
    ELSE IF returncode = 0 THEN
        IF found_unimplemented(text)
        THEN Returned(FALSE, MissingIssue(attr_dict, name))
        ELSE Returned(TRUE, PassIssue(attr_dict, name))
    ELSE Raised("SDKException")

\* selftest_result with the success test written returncode <= 0
selftest_result_signal_as_success(attr_dict, name, returncode, text) ==
    IF returncode = 1 THEN Returned(FALSE, FailIssue(attr_dict, name, text))
    ELSE IF returncode > 1 THEN Returned(FALSE, ErrorIssue(attr_dict, text))
    ELSE IF returncode <= 0 THEN
        IF found_unimplemented(text)
        THEN Returned(FALSE, MissingIssue(attr_dict, name))
        ELSE Returned(TRUE, PassIssue(attr_dict, name))
    ELSE Raised("SDKException")

\* selftest_result that remembers an earlier call: a second run that exits
\* with 0 is reported as not implemented
selftest_result_remembering(attr_dict, name, returncode, text) ==
    IF returncode = 1 THEN Returned(FALSE, FailIssue(attr_dict, name, text))
    ELSE IF returncode > 1 THEN Returned(FALSE, ErrorIssue(attr_dict, text))
    ELSE IF returncode = 0 THEN
        IF found_unimplemented(text) \/ "first" \in DOMAIN call
        THEN Returned(FALSE, MissingIssue(attr_dict, name))
        ELSE Returned(TRUE, PassIssue(attr_dict, name))
    ELSE Raised("SDKException")

\* lines 223-258: the result for the exit code and the decoded stderr
selftest_result(attr_dict, name, returncode, text) ==
    IF returncode = 1 THEN Returned(FALSE, FailIssue(attr_dict, name, text))
    ELSE IF returncode > 1 THEN Returned(FALSE, ErrorIssue(attr_dict, text))
    ELSE IF returncode = 0 THEN
        IF found_unimplemented(text)
        THEN Returned(FALSE, MissingIssue(attr_dict, name))
        ELSE Returned(TRUE, PassIssue(attr_dict, name))
    ELSE Raised("SDKException")

\* no process is in run() of resilient_circuits.app
NoCircuits == [app_lock_file |-> None]

\* before Popen there is no child
NoProcess == [state |-> "not started", returncode |-> None,
              stdout |-> None, stderr |-> None]

\* lines 170-174: point the child at the app config file
SetEnv ==
    /\ pc = "start"
    /\ environ' = IF path_app_config = None THEN "" ELSE path_app_config
    /\ pc' = "popen"
    /\ UNCHANGED <<circuits, call, ret, package_name, path_app_config, proc, details, result>>

\* lines 177-178: start the child; Popen raises OSError when the
\* resilient-circuits executable cannot be started
Popen ==
    /\ pc = "popen"
    /\ \/ /\ proc' = [state |-> "running", returncode |-> None,
                      stdout |-> None, stderr |-> None]
          /\ pc' = "poll"
          /\ UNCHANGED result
       \/ /\ result' = Raised("OSError")
          /\ pc' = "done"
          /\ UNCHANGED proc
    /\ UNCHANGED <<circuits, call, ret, package_name, path_app_config, environ, details>>

\* the child ends, by itself or by a signal
ChildExit ==
    /\ proc.state = "running"
    /\ \E code \in ReturnCodes :
          proc' = [proc EXCEPT !.state = "exited", !.returncode = code]
    /\ UNCHANGED <<circuits, call, ret, pc, package_name, path_app_config, environ, details, result>>

\* a polling loop that gives up waiting: it leaves whether or not the child
\* has exited
Poll_giving_up ==
    /\ pc = "poll"
    /\ pc' = "unset_env"
    /\ UNCHANGED <<circuits, call, ret, package_name, path_app_config, environ, proc, details, result>>

\* lines 183-188: the loop leaves once poll() reports the exit; while the
\* child runs the loop only redraws the waiting bar and sleeps
Poll ==
    /\ pc = "poll"
    /\ proc.state = "exited"
    /\ pc' = "unset_env"
    /\ UNCHANGED <<circuits, call, ret, package_name, path_app_config, environ, proc, details, result>>

\* line 191
UnsetEnv ==
    /\ pc = "unset_env"
    /\ environ' = ""
    /\ pc' = "communicate"
    /\ UNCHANGED <<circuits, call, ret, package_name, path_app_config, proc, details, result>>

\* lines 196-198: read what the child wrote and decode its stderr
Communicate ==
    /\ pc = "communicate"
    /\ \E out \in StdoutTexts, err \in StderrTexts :
          /\ proc' = [proc EXCEPT !.stdout = out, !.stderr = err]
          /\ details' = err
    /\ pc' = "classify"
    /\ UNCHANGED <<circuits, call, ret, package_name, path_app_config, environ, result>>

\* lines 223-258
Classify ==
    /\ pc = "classify"
    /\ result' = selftest_result(selftest_attributes_3, package_name,
                                 proc.returncode, details)
    /\ pc' = "done"
    /\ UNCHANGED <<circuits, call, ret, package_name, path_app_config, environ, proc, details>>

SelftestInit ==
    /\ pc = "start"
    /\ package_name \in PackageNames
    /\ path_app_config \in AppConfigPaths
    /\ environ \in {None, "/old/app.config"}
    /\ proc = NoProcess
    /\ details = None
    /\ result = None
    /\ circuits = NoCircuits

vars == <<selftest_vars, call, ret, circuits>>

\* no package-file check is being called
NoCall == [func |-> None]
NoReturn == [kind |-> "none"]

Init == SelftestInit /\ call = NoCall /\ ret = NoReturn

Next ==
    \/ SetEnv
    \/ Popen
    \/ ChildExit
    \/ Poll
    \/ UnsetEnv
    \/ Communicate
    \/ Classify

Spec == Init /\ [][Next]_vars

(***************************************************************************)
(* Properties of selftest_run_selftestpy.                                  *)
(***************************************************************************)
\* the call has ended after its child exited
Finished == pc = "done" /\ proc.state = "exited"

IsReturn == result.kind = "return"
IsPassOutcome ==
    /\ IsReturn /\ result.success = TRUE
    /\ result.issue.name = "selftest.py success"
    /\ result.issue.severity = "DEBUG"
    /\ result.issue.solution = ""
IsNotImplementedOutcome ==
    /\ IsReturn /\ result.success = FALSE
    /\ result.issue.name = "selftest.py not implemented"
    /\ result.issue.severity = "CRITICAL"
IsFailedOutcome ==
    /\ IsReturn /\ result.success = FALSE
    /\ result.issue.name = "selftest.py failed"
    /\ result.issue.description.msg = selftest_attributes_3.fail_msg
    /\ result.issue.severity = "CRITICAL"
IsConnectionErrorOutcome ==
    /\ IsReturn /\ result.success = FALSE
    /\ result.issue.description.msg = selftest_attributes_3.error_msg
    /\ result.issue.severity = "CRITICAL"

OutcomeCount ==
    Cardinality({k \in 1..4 :
        \/ k = 1 /\ IsPassOutcome
        \/ k = 2 /\ IsNotImplementedOutcome
        \/ k = 3 /\ IsFailedOutcome
        \/ k = 4 /\ IsConnectionErrorOutcome})

\* C1: for every exit code >= 0 the call returns exactly one of the four
\* outcomes: code 0 without the unimplemented marker in stderr gives
\* (True, DEBUG Issue with empty solution), code 0 with it gives the CRITICAL
\* "not implemented" Issue, code 1 the CRITICAL "failed" Issue and every code
\* above 1 the CRITICAL connection-error Issue.
C1_ClassifiedByExitCode ==
    (Finished /\ proc.returncode >= 0) =>
        LET marker == Contains(proc.stderr, UNIMPLEMENTED_STATE)
            code == proc.returncode
        IN  /\ (code = 0 /\ ~marker) => IsPassOutcome
            /\ (code = 0 /\ marker) => IsNotImplementedOutcome
            /\ code = 1 => IsFailedOutcome
            /\ code > 1 => IsConnectionErrorOutcome
            /\ OutcomeCount = 1

C1_Witness ==
    /\ Finished /\ proc.returncode = MaxReturnCode
    /\ IsConnectionErrorOutcome /\ ~IsFailedOutcome

\* the index of the last occurrence of sub in text, stated without rfind
IsLastOccurrence(text, sub, i) ==
    /\ OccursAt(text, sub, i)
    /\ \A j \in (i + 1)..Len(text) : ~OccursAt(text, sub, j)

\* strip, then "\n" to ". ", then "\t" to " "
Normalized(text) == replace(replace(strip(text), "\n", <<".", " ">>), "\t", <<" ">>)

\* the text strictly between the last "{" and the last "}", empty when
\* no such pair delimits a fragment
BraceFragment(text) ==
    IF \E o, c \in 0..Len(text) :
          IsLastOccurrence(text, OPEN_BRACE, o) /\ IsLastOccurrence(text, CLOSE_BRACE, c) /\ o < c
    THEN LET o == CHOOSE i \in 0..Len(text) : IsLastOccurrence(text, OPEN_BRACE, i)
             c == CHOOSE i \in 0..Len(text) : IsLastOccurrence(text, CLOSE_BRACE, i)
         IN  SubSeq(text, o + 2, c)
    ELSE <<>>

\* the same, a missing "{" read as the start of the text and a missing "}"
\* as its end
BraceFragmentOpenEnded(text) ==
    LET o == IF Contains(text, OPEN_BRACE)
             THEN CHOOSE i \in 0..Len(text) : IsLastOccurrence(text, OPEN_BRACE, i)
             ELSE -1
        c == IF Contains(text, CLOSE_BRACE)
             THEN CHOOSE i \in 0..Len(text) : IsLastOccurrence(text, CLOSE_BRACE, i)
             ELSE Len(text)
    IN  IF o < c THEN SubSeq(text, o + 2, c) ELSE <<>>

\* C2: after exit code 1 the description holds the package name and the
\* reason: the text strictly between the last "{" and the last "}" of
\* stderr, trimmed, newlines replaced by ". " and tabs by spaces, for every
\* stderr text.  Either reading of a text without a delimiting pair is taken.
C2_ReasonIsLastBraceFragment ==
    (Finished /\ proc.returncode = 1) =>
        /\ IsFailedOutcome
        /\ result.issue.description.args[1] = package_name
        /\ result.issue.description.args[2] \in
              {Normalized(BraceFragment(proc.stderr)),
               Normalized(BraceFragmentOpenEnded(proc.stderr))}

\* the text from the last "ERROR" to the end; the whole text when it holds
\* no "ERROR"
VerbatimErrorText(text) ==
    IF Contains(text, ERROR_TOKEN)
    THEN LET i == CHOOSE k \in 0..Len(text) : IsLastOccurrence(text, ERROR_TOKEN, k)
         IN  SubSeq(text, i + 1, Len(text))
    ELSE text

\* C3 as claimed, for an output that holds "ERROR" and has no white space
\* at its end: after an exit code above 1 the description contains the
\* error text verbatim, from the last "ERROR" to the end of the output, also
\* when the output has several lines.
C3_DescriptionHoldsErrorTextVerbatim ==
    (/\ Finished /\ proc.returncode > 1
     /\ Contains(proc.stderr, ERROR_TOKEN)
     /\ strip(proc.stderr) = proc.stderr) =>
        Contains(result.issue.description.args[1], VerbatimErrorText(proc.stderr))

\* what line 233 slices: from the last "ERROR" on, and the last character
\* alone when stderr holds no "ERROR"
ErrorTail(text) ==
    IF Contains(text, ERROR_TOKEN) THEN VerbatimErrorText(text)
    ELSE IF text = <<>> THEN <<>> ELSE <<text[Len(text)]>>

\* C3: after an exit code above 1 the call returns the CRITICAL
\* connection-error Issue whose description holds stderr from the last "ERROR"
\* to the end, trimmed, with newlines replaced by ". " and tabs by spaces;
\* of a stderr without "ERROR" only the last character is taken.
C3_DescriptionHoldsNormalizedErrorTail ==
    (Finished /\ proc.returncode > 1) =>
        /\ IsConnectionErrorOutcome
        /\ result.issue.description.args = <<Normalized(ErrorTail(proc.stderr))>>

C3_Witness ==
    /\ Finished /\ proc.returncode > 1
    /\ proc.stderr = ERROR_TOKEN \o <<"\n">> \o <<"a">>
    /\ result.issue.description.args = <<ERROR_TOKEN \o <<".", " ", "a">> >>

C5_UnknownStatusRaises ==
    (Finished /\ proc.returncode < 0) =>
        /\ result = Raised("SDKException")
        /\ ~IsReturn

C5_Witness ==
    /\ Finished /\ proc.returncode = -9
    /\ result.kind = "raise" /\ result.exception = "SDKException"

(***************************************************************************)
(* No selftest is running while a package-file check is called.            *)
(***************************************************************************)
SelftestIdle ==
    /\ pc = "idle"
    /\ package_name = None
    /\ path_app_config = None
    /\ environ = None
    /\ proc = NoProcess
    /\ details = None
    /\ result = None
    /\ circuits = NoCircuits

\* a check function returned value
ReturnedValue(value) == [kind |-> "return", value |-> value]

(***************************************************************************)
(* package_files_manifest.                                                 *)
(***************************************************************************)
\* Most lines of the rendered template and of the file read.
MaxTemplateLines == 2
MaxFileLines == 2

\* the catalog entry package_files["MANIFEST.in"]
package_files_MANIFEST ==
    [fail_name |-> "MANIFEST.in: fail_name",
     fail_msg |-> "MANIFEST.in: fail_msg {0}",
     fail_severity |-> SEVERITY_LEVEL_WARN,
     fail_solution |-> "MANIFEST.in: fail_solution",
     pass_name |-> "MANIFEST.in: pass_name",
     pass_msg |-> "MANIFEST.in: pass_msg"]

\* str.splitlines(True) of a text whose only line break is "\n"
RECURSIVE splitlines(_)
splitlines(text) ==
    IF text = <<>> THEN <<>>
    ELSE LET breaks == {i \in 1..Len(text) : text[i] = "\n"}
             end == IF breaks = {} THEN Len(text)
                    ELSE CHOOSE i \in breaks : \A j \in breaks : i <= j
         IN  <<SubSeq(text, 1, end)>> \o splitlines(SubSeq(text, end + 1, Len(text)))

\* difflib.get_close_matches with a cutoff above the ratio 9/10 itself
get_close_matches_above_cutoff(word, possibilities, cutoff) ==
    SelectSeq(possibilities,
              LAMBDA x : /\ RatioGE(real_quick_ratio(x, word), cutoff)
                         /\ RatioGE(quick_ratio(x, word), cutoff)
                         /\ ~RatioGE(cutoff, ratio(x, word)))

\* difflib.get_close_matches(word, possibilities, cutoff=cutoff): the
\* possibilities that pass the three ratio tests (difflib returns the 3 best
\* of them, a list that is empty exactly when this one is)
get_close_matches(word, possibilities, cutoff) ==
    SelectSeq(possibilities,
              LAMBDA x : /\ RatioGE(real_quick_ratio(x, word), cutoff)
                         /\ RatioGE(quick_ratio(x, word), cutoff)
                         /\ RatioGE(ratio(x, word), cutoff))

\* lines 294-300: the template lines without a close match in the file
RECURSIVE manifest_diffs(_, _)
manifest_diffs(template_contents, file_contents) ==
    IF template_contents = <<>> THEN <<>>
    ELSE LET line == Head(template_contents)
             rest == manifest_diffs(Tail(template_contents), file_contents)
         IN  IF strip(line) = <<>> THEN rest
             ELSE IF get_close_matches(line, file_contents, <<90, 100>>) = <<>>
                  THEN <<strip(line)>> \o rest
                  ELSE rest

\* lines 285-317
package_files_manifest(attr_dict, file_rendered, file_contents) ==
    LET template_contents == splitlines(file_rendered)
        diffs == manifest_diffs(template_contents, file_contents)
    IN  IF diffs # <<>>
        THEN SDKValidateIssue(attr_dict.fail_name,
                              Format(attr_dict.fail_msg, <<diffs>>),
                              attr_dict.fail_severity, attr_dict.fail_solution)
        ELSE SDKValidateIssue(attr_dict.pass_name, attr_dict.pass_msg,
                              SEVERITY_LEVEL_DEBUG, "")

\* pieces of a rendered MANIFEST.in template
TemplatePieces ==
    {<<"i", "n", "c", "l", "u", "d", "e", " ", "a", "\n">>,
     <<"\n">>,
     <<" ", "\n">>,
     <<" ", " ", "i", "n", "c", "l", "u", "d", "e", " ", "b", "\n">>,
     <<"i", "n", "c", "l", "u", "d", "e", " ", "b">>}

\* lines of a package's MANIFEST.in as read_file returns them
ManifestFileLines ==
    {<<"i", "n", "c", "l", "u", "d", "e", " ", "a", "\n">>,
     <<"i", "n", "c", "l", "u", "d", "e", " ", "b", "\n">>,
     <<"i", "n", "c", "l", "u", "d", "e", " ", "b", "b", "\n">>,
     <<"\n">>}

RECURSIVE ConcatsUpTo(_, _)
ConcatsUpTo(pieces, n) ==
    IF n = 0 THEN {<<>>}
    ELSE LET shorter == ConcatsUpTo(pieces, n - 1)
         IN  shorter \cup {t \o f : t \in shorter, f \in pieces}

RECURSIVE SeqsUpTo(_, _)
SeqsUpTo(S, n) ==
    IF n = 0 THEN {<<>>}
    ELSE LET shorter == SeqsUpTo(S, n - 1)
         IN  shorter \cup {Append(t, x) : t \in shorter, x \in S}

ManifestInit ==
    /\ SelftestIdle
    /\ \E rendered \in ConcatsUpTo(TemplatePieces, MaxTemplateLines),
          lines \in SeqsUpTo(ManifestFileLines, MaxFileLines) :
          call = [func |-> "package_files_manifest",
                  file_rendered |-> rendered, file_contents |-> lines]
    /\ ret = NoReturn

ManifestCall ==
    /\ call.func = "package_files_manifest"
    /\ ret = NoReturn
    /\ ret' = ReturnedValue(package_files_manifest(package_files_MANIFEST,
                                call.file_rendered, call.file_contents))
    /\ UNCHANGED <<selftest_vars, call, circuits>>

SpecManifest == ManifestInit /\ [][ManifestCall]_vars

(***************************************************************************)
(* difflib.unified_diff.  A line of the diff is the tuple of its leading   *)
(* mark and what follows it: <<"-", line>> is the text "-" + line.         *)
(***************************************************************************)
\* get_opcodes, from the matching blocks on, the sequences read up to i and j
RECURSIVE opcodes(_, _, _)
opcodes(blocks, i, j) ==
    IF blocks = <<>> THEN <<>>
    ELSE LET ai == Head(blocks)[1]
             bj == Head(blocks)[2]
             size == Head(blocks)[3]
             tag == IF i < ai /\ j < bj THEN "replace"
                    ELSE IF i < ai THEN "delete"
                    ELSE IF j < bj THEN "insert"
                    ELSE ""
         IN  (IF tag # "" THEN << <<tag, i, ai, j, bj>> >> ELSE <<>>)
             \o (IF size # 0
                 THEN << <<"equal", ai, ai + size, bj, bj + size>> >> ELSE <<>>)
             \o opcodes(Tail(blocks), ai + size, bj + size)

get_opcodes(a, b) == opcodes(get_matching_blocks(a, b), 0, 0)

\* the loop of get_grouped_opcodes over the codes left, group being open
RECURSIVE grouped_opcodes(_, _, _)
grouped_opcodes(codes, group, n) ==
    IF codes = <<>>
    THEN IF group # <<>> /\ ~(Len(group) = 1 /\ group[1][1] = "equal")
         THEN <<group>> ELSE <<>>
    ELSE LET tag == Head(codes)[1]
             i1 == Head(codes)[2]
             i2 == Head(codes)[3]
             j1 == Head(codes)[4]
             j2 == Head(codes)[5]
         IN  IF tag = "equal" /\ i2 - i1 > n + n
             THEN <<Append(group, <<tag, i1, Min(i2, i1 + n), j1, Min(j2, j1 + n)>>)>>
                  \o grouped_opcodes(Tail(codes),
                                     << <<tag, Max(i1, i2 - n), i2, Max(j1, j2 - n), j2>> >>, n)
             ELSE grouped_opcodes(Tail(codes), Append(group, Head(codes)), n)

\* the first code, when it shows no change, keeps its last n lines
keep_last_lines(codes, n) ==
    IF codes[1][1] = "equal"
    THEN [codes EXCEPT ![1] = <<"equal", Max(@[2], @[3] - n), @[3],
                                Max(@[4], @[5] - n), @[5]>>]
    ELSE codes

\* the last code, when it shows no change, keeps its first n lines
keep_first_lines(codes, n) ==
    IF codes[Len(codes)][1] = "equal"
    THEN [codes EXCEPT ![Len(codes)] = <<"equal", @[2], Min(@[3], @[2] + n),
                                         @[4], Min(@[5], @[4] + n)>>]
    ELSE codes

\* get_grouped_opcodes(n): the codes, or one empty code when there is none,
\* with the context of the first and of the last cut to n lines, in groups
get_grouped_opcodes(a, b, n) ==
    TheOne({grouped_opcodes(last, <<>>, n) :
        last \in {keep_first_lines(first, n) :
            first \in {keep_last_lines(codes, n) :
                codes \in {IF all = <<>> THEN << <<"equal", 0, 1, 0, 1>> >> ELSE all :
                    all \in {get_opcodes(a, b)}}}}})

\* _format_range_unified: <<beginning>> for a range of one line, else
\* <<beginning, length>>
format_range_unified(start, stop) ==
    LET length == stop - start
    IN  IF length = 1 THEN <<start + 1>>
        ELSE IF length = 0 THEN <<start, length>>
        ELSE <<start + 1, length>>

\* the lines of one opcode
opcode_lines(a, b, code) ==
    LET tag == code[1]
        old == Slice(a, code[2], code[3])
        new == Slice(b, code[4], code[5])
    IN  IF tag = "equal" THEN [i \in 1..Len(old) |-> <<" ", old[i]>>]
        ELSE (IF tag \in {"replace", "delete"}
              THEN [i \in 1..Len(old) |-> <<"-", old[i]>>] ELSE <<>>)
             \o (IF tag \in {"replace", "insert"}
                 THEN [i \in 1..Len(new) |-> <<"+", new[i]>>] ELSE <<>>)

RECURSIVE group_lines(_, _, _)
group_lines(a, b, group) ==
    IF group = <<>> THEN <<>>
    ELSE opcode_lines(a, b, Head(group)) \o group_lines(a, b, Tail(group))

\* the hunks of the groups
RECURSIVE hunks(_, _, _)
hunks(a, b, groups) ==
    IF groups = <<>> THEN <<>>
    ELSE LET group == Head(groups)
             first == group[1]
             last == group[Len(group)]
         IN  << <<"@@", format_range_unified(first[2], last[3]),
                       format_range_unified(first[4], last[5])>> >>
             \o group_lines(a, b, group)
             \o hunks(a, b, Tail(groups))

\* difflib.unified_diff(a, b, fromfile, tofile, n): nothing when no group
\* shows a change, else the two header lines and the hunks
unified_diff(a, b, fromfile, tofile, n) ==
    TheOne({IF groups = <<>> THEN <<>>
            ELSE << <<"---", fromfile>>, <<"+++", tofile>> >> \o hunks(a, b, groups) :
                groups \in {get_grouped_opcodes(a, b, n)}})

\* str.join of a list of lines: the lines with the separator between them
RECURSIVE join(_, _)
join(sep, lines) ==
    IF lines = <<>> THEN <<>>
    ELSE IF Len(lines) = 1 THEN lines
    ELSE <<Head(lines), sep>> \o join(sep, Tail(lines))

(***************************************************************************)
(* package_files_template_match.                                           *)
(***************************************************************************)
\* Most lines of the rendered template and of the file read.
MaxMatchTemplateLines == 3
MaxMatchFileLines == 3

\* the catalog entries package_files["Dockerfile"] and ["entrypoint.sh"]
package_files_template(filename) ==
    [fail_name |-> <<filename, "fail_name">>,
     fail_msg |-> <<filename, "fail_msg {0:.2f} {1}">>,
     fail_severity |-> SEVERITY_LEVEL_WARN,
     fail_solution |-> <<filename, "fail_solution">>,
     pass_name |-> <<filename, "pass_name">>,
     pass_msg |-> <<filename, "pass_msg">>]

\* package_file_helpers.color_diff_output: the lines, each in the colour of
\* its mark
color_diff_output(diff) ==
    [i \in 1..Len(diff) |->
        [color |-> IF diff[i][1] = "+" THEN "green"
                   ELSE IF diff[i][1] = "-" THEN "red" ELSE "none",
         line |-> diff[i]]]

\* lines 404-405 with the file and the template in each other's place
template_match_diff_reversed(template_contents, file_contents, filename) ==
    unified_diff(file_contents, template_contents, <<"template_", filename>>, filename, 0)

\* lines 404-405
template_match_diff(template_contents, file_contents, filename) ==
    unified_diff(template_contents, file_contents, <<"template_", filename>>, filename, 0)

\* lines 395-419
package_files_template_match(attr_dict, filename, file_rendered, file_contents) ==
    LET template_contents == splitlines(file_rendered)
        comp_ratio == ratio(file_contents, template_contents)
    IN  IF RatioLT(comp_ratio, <<1, 1>>)
        THEN LET diff == color_diff_output(
                             template_match_diff(template_contents, file_contents, filename))
             IN  SDKValidateIssue(attr_dict.fail_name,
                                  Format(attr_dict.fail_msg,
                                         << <<comp_ratio[1] * 100, comp_ratio[2]>>,
                                            join("\t\t", diff) >>),
                                  attr_dict.fail_severity, attr_dict.fail_solution)
        ELSE SDKValidateIssue(attr_dict.pass_name, attr_dict.pass_msg,
                              SEVERITY_LEVEL_DEBUG, "")

\* pieces of a rendered template and lines of the package's file
MatchTemplatePieces == {<<"a", "\n">>, <<"b", "\n">>, <<"a">>}
MatchFileLines == {<<"a", "\n">>, <<"b", "\n">>, <<"a">>}
TemplateFilenames == {"Dockerfile", "entrypoint.sh"}

TemplateMatchInit ==
    /\ SelftestIdle
    /\ \E filename \in TemplateFilenames,
          rendered \in ConcatsUpTo(MatchTemplatePieces, MaxMatchTemplateLines),
          lines \in SeqsUpTo(MatchFileLines, MaxMatchFileLines) :
          call = [func |-> "package_files_template_match", filename |-> filename,
                  file_rendered |-> rendered, file_contents |-> lines]
    /\ ret = NoReturn

TemplateMatchCall ==
    /\ call.func = "package_files_template_match"
    /\ ret = NoReturn
    /\ ret' = ReturnedValue(package_files_template_match(
                                package_files_template(call.filename), call.filename,
                                call.file_rendered, call.file_contents))
    /\ UNCHANGED <<selftest_vars, call, circuits>>

SpecTemplateMatch == TemplateMatchInit /\ [][TemplateMatchCall]_vars

(***************************************************************************)
(* package_files_apikey_pem.                                               *)
(***************************************************************************)
\* Most lines of the apikey_permissions.txt file read.
MaxPermissionLines == 2

\* package_file_helpers.BASE_PERMISSIONS
BASE_PERMISSIONS ==
    <<<<"r", "e", "a", "d", "_", "d", "a", "t", "a">>,
      <<"r", "e", "a", "d", "_", "f", "u", "n", "c", "t", "i", "o", "n">>>>

\* the catalog entry package_files["apikey_permissions.txt"]
package_files_apikey_permissions ==
    [fail_name |-> "apikey_permissions.txt: fail_name",
     fail_msg |-> "apikey_permissions.txt: fail_msg {0}",
     fail_severity |-> SEVERITY_LEVEL_CRITICAL,
     fail_solution |-> "apikey_permissions.txt: fail_solution",
     pass_name |-> "apikey_permissions.txt: pass_name",
     pass_msg |-> "apikey_permissions.txt: pass_msg",
     pass_solution |-> "apikey_permissions.txt: pass_solution {0}"]

\* line 339 without the strip
permission_lines_unstripped(file_contents) ==
    SelectSeq(file_contents, LAMBDA line : ~startswith(line, <<"#">>))

\* line 339: the lines that are no comment, stripped
permission_lines(file_contents) ==
    LET kept == SelectSeq(file_contents, LAMBDA line : ~startswith(line, <<"#">>))
    IN  [i \in 1..Len(kept) |-> strip(kept[i])]

\* x in list
In(x, list) == \E i \in 1..Len(list) : list[i] = x

\* lines 336-362
package_files_apikey_pem(attr_dict, file_read) ==
    LET file_contents == permission_lines(file_read)
        missing_permissions == SelectSeq(BASE_PERMISSIONS,
                                         LAMBDA perm : ~In(perm, file_contents))
    IN  IF missing_permissions # <<>>
        THEN SDKValidateIssue(attr_dict.fail_name,
                              Format(attr_dict.fail_msg, <<missing_permissions>>),
                              attr_dict.fail_severity, attr_dict.fail_solution)
        ELSE SDKValidateIssue(attr_dict.pass_name, attr_dict.pass_msg,
                              SEVERITY_LEVEL_DEBUG,
                              Format(attr_dict.pass_solution, <<file_contents>>))

\* lines of an apikey_permissions.txt as read_file returns them
PermissionFileLines ==
    {<<"r", "e", "a", "d", "_", "d", "a", "t", "a", "\n">>,
     <<"r", "e", "a", "d", "_", "f", "u", "n", "c", "t", "i", "o", "n", "\n">>,
     <<"#", "r", "e", "a", "d", "_", "d", "a", "t", "a", "\n">>,
     <<"#", "r", "e", "a", "d", "_", "f", "u", "n", "c", "t", "i", "o", "n", "\n">>,
     <<" ", " ", "r", "e", "a", "d", "_", "d", "a", "t", "a", " ", "\n">>,
     <<" ", "#", "r", "e", "a", "d", "_", "f", "u", "n", "c", "t", "i", "o", "n", "\n">>,
     <<"r", "e", "a", "d", "_", "d", "a", "t", "a", "_", "x", "\n">>,
     <<"r", "e", "a", "d", "_", "f", "u", "n", "c", "t", "i", "o", "n">>}

ApikeyInit ==
    /\ SelftestIdle
    /\ \E lines \in SeqsUpTo(PermissionFileLines, MaxPermissionLines) :
          call = [func |-> "package_files_apikey_pem", file_contents |-> lines]
    /\ ret = NoReturn

ApikeyCall ==
    /\ call.func = "package_files_apikey_pem"
    /\ ret = NoReturn
    /\ ret' = ReturnedValue(package_files_apikey_pem(package_files_apikey_permissions,
                                                     call.file_contents))
    /\ UNCHANGED <<selftest_vars, call, circuits>>

SpecApikey == ApikeyInit /\ [][ApikeyCall]_vars

(***************************************************************************)
(* package_files_validate_readme.                                          *)
(***************************************************************************)
\* Most lines of the README.md read and most screenshots it links.
MaxReadmeLines == 2
MaxPaths == 2

DOCGEN_PLACEHOLDER_STRING == <<":", ":", "C", "H", "A", "N", "G", "E", "_", "M", "E", ":", ":">>

\* the catalog entry package_files["README.md"]
package_files_README ==
    [fail_codegen_name |-> "README.md: fail_codegen_name",
     fail_codegen_msg |-> "README.md: fail_codegen_msg",
     fail_codegen_severity |-> SEVERITY_LEVEL_CRITICAL,
     fail_codegen_solution |-> "README.md: fail_codegen_solution {0}",
     fail_placeholder_name |-> "README.md: fail_placeholder_name",
     fail_placeholder_msg |-> "README.md: fail_placeholder_msg {0}",
     fail_placeholder_severity |-> SEVERITY_LEVEL_CRITICAL,
     fail_placeholder_solution |-> "README.md: fail_placeholder_solution {0}",
     fail_todo_name |-> "README.md: fail_todo_name",
     fail_todo_msg |-> "README.md: fail_todo_msg",
     fail_todo_severity |-> SEVERITY_LEVEL_WARN,
     fail_todo_solution |-> "README.md: fail_todo_solution",
     fail_screenshots_name |-> "README.md: fail_screenshots_name",
     fail_screenshots_msg |-> "README.md: fail_screenshots_msg {0}",
     fail_screenshots_severity |-> SEVERITY_LEVEL_CRITICAL,
     fail_screenshots_solution |-> "README.md: fail_screenshots_solution",
     pass_name |-> "README.md: pass_name",
     pass_msg |-> "README.md: pass_msg",
     pass_solution |-> "README.md: pass_solution"]

\* package_file_helpers.parse_file_paths_from_readme: what it gives for the
\* lines of a README is an input of the call, either the paths of the
\* screenshots linked or an SDKException, whose text begins "\nERROR: "
ParsedPaths(paths) == [kind |-> "return", value |-> paths]
ParseError(message) == [kind |-> "raise", exception |-> "SDKException", message |-> message]

\* sdk_helpers.validate_file_paths(os.R_OK, path) raises no SDKException:
\* the path is that of a file the process may read
validate_file_paths(path, readable) == path \in readable

\* os.path.join(a, b) of posixpath
os_path_join(a, b) ==
    IF startswith(b, <<"/">>) THEN b
    ELSE IF a = <<>> \/ a[Len(a)] = "/" THEN a \o b
    ELSE a \o <<"/">> \o b

\* any(sub in line for line in lines)
AnyLineContains(lines, sub) == \E i \in 1..Len(lines) : Contains(lines[i], sub)

\* line 567: "<!-- {0} -->".format(constants.DOCGEN_PLACEHOLDER_STRING)
placeholder_comment ==
    <<"<", "!", "-", "-", " ">> \o DOCGEN_PLACEHOLDER_STRING \o <<" ", "-", "-", ">">>

TODO_TOKEN == <<"T", "O", "D", "O">>
ERROR_PREFIX == <<"E", "R", "R", "O", "R", ":", " ">>

\* lines 558-564
CodegenIssue(attr_dict, path_package) ==
    SDKValidateIssue(attr_dict.fail_codegen_name, attr_dict.fail_codegen_msg,
                     attr_dict.fail_codegen_severity,
                     Format(attr_dict.fail_codegen_solution, <<path_package>>))

\* lines 567-573
PlaceholderIssue(attr_dict) ==
    SDKValidateIssue(attr_dict.fail_placeholder_name,
                     Format(attr_dict.fail_placeholder_msg, <<DOCGEN_PLACEHOLDER_STRING>>),
                     attr_dict.fail_placeholder_severity,
                     Format(attr_dict.fail_placeholder_solution, <<DOCGEN_PLACEHOLDER_STRING>>))

\* lines 576-582
TodoIssue(attr_dict) ==
    SDKValidateIssue(attr_dict.fail_todo_name, attr_dict.fail_todo_msg,
                     attr_dict.fail_todo_severity, attr_dict.fail_todo_solution)

\* lines 587-617: the screenshots linked are looked up below the package
validate_screenshots(attr_dict, path_package, parsed, readable) ==
    IF parsed.kind = "raise"
    THEN LET err_msg == replace(parsed.message, "\n", <<" ">>)
             at == find(err_msg, ERROR_PREFIX)
         IN  IF at = -1 THEN Raised("ValueError")
             ELSE ReturnedValue(SDKValidateIssue(
                      "README.md link syntax error",
                      SliceFrom(err_msg, at + Len(ERROR_PREFIX)), NOT_GIVEN, NOT_GIVEN))
    ELSE LET screenshot_paths == parsed.value
             invalid_paths ==
                 SelectSeq(screenshot_paths,
                           LAMBDA path : ~validate_file_paths(
                                              os_path_join(path_package, path), readable))
         IN  IF invalid_paths # <<>>
             THEN ReturnedValue(SDKValidateIssue(
                      attr_dict.fail_screenshots_name,
                      Format(attr_dict.fail_screenshots_msg, <<invalid_paths>>),
                      attr_dict.fail_screenshots_severity,
                      attr_dict.fail_screenshots_solution))
             ELSE ReturnedValue(SDKValidateIssue(attr_dict.pass_name, attr_dict.pass_msg,
                                                 SEVERITY_LEVEL_DEBUG,
                                                 attr_dict.pass_solution))

\* lines 547-617 with the test for "TODO" ahead of the one for the placeholder
package_files_validate_readme_todo_first(attr_dict, path_package, file_contents, codegen_readme_rendered, parsed, readable) ==
    LET template_contents == splitlines(codegen_readme_rendered)
        comp_ratio == ratio(file_contents, template_contents)
    IN  IF comp_ratio[1] = comp_ratio[2]
        THEN ReturnedValue(CodegenIssue(attr_dict, path_package))
        ELSE IF AnyLineContains(file_contents, TODO_TOKEN)
        THEN ReturnedValue(TodoIssue(attr_dict))
        ELSE IF AnyLineContains(file_contents, placeholder_comment)
        THEN ReturnedValue(PlaceholderIssue(attr_dict))
        ELSE validate_screenshots(attr_dict, path_package, parsed, readable)

\* lines 547-617
package_files_validate_readme(attr_dict, path_package, file_contents, codegen_readme_rendered, parsed, readable) ==
    LET template_contents == splitlines(codegen_readme_rendered)
        comp_ratio == ratio(file_contents, template_contents)
    IN  IF comp_ratio[1] = comp_ratio[2]
        THEN ReturnedValue(CodegenIssue(attr_dict, path_package))
        ELSE IF AnyLineContains(file_contents, placeholder_comment)
        THEN ReturnedValue(PlaceholderIssue(attr_dict))
        ELSE IF AnyLineContains(file_contents, TODO_TOKEN)
        THEN ReturnedValue(TodoIssue(attr_dict))
        ELSE validate_screenshots(attr_dict, path_package, parsed, readable)

\* lines of a README.md, and the rendered codegen templates made of them
PlaceholderLine == placeholder_comment \o <<"\n">>
TodoLine == <<"T", "O", "D", "O", "s", "\n">>
ReadmeLines ==
    {PlaceholderLine,
     TodoLine,
     DOCGEN_PLACEHOLDER_STRING \o <<"\n">>,
     <<"t", "o", "d", "o", "\n">>,
     <<"#", " ", "a", "\n">>}
ReadmeTemplates == {PlaceholderLine \o TodoLine, <<"#", " ", "a", "\n">>}

\* the package, the screenshot paths a README links and the files there are
PackagePath == <<"/", "p">>
ScreenshotPaths == {<<"a">>, <<"b">>, <<"/", "a">>}
Files == {<<"/", "p", "/", "a">>, <<"/", "p", "/", "b">>, <<"/", "a">>}
ParseErrors == {<<"\n", "E", "R", "R", "O", "R", ":", " ", "x", "\n", "y">>}

ReadmeInit ==
    /\ SelftestIdle
    /\ \E lines \in SeqsUpTo(ReadmeLines, MaxReadmeLines),
          rendered \in ReadmeTemplates,
          parsed \in {ParsedPaths(paths) : paths \in SeqsUpTo(ScreenshotPaths, MaxPaths)}
                         \cup {ParseError(m) : m \in ParseErrors},
          readable \in SUBSET Files :
          call = [func |-> "package_files_validate_readme", path_package |-> PackagePath,
                  file_contents |-> lines, codegen_readme_rendered |-> rendered,
                  parsed |-> parsed, readable |-> readable]
    /\ ret = NoReturn

ReadmeCall ==
    /\ call.func = "package_files_validate_readme"
    /\ ret = NoReturn
    /\ ret' = package_files_validate_readme(package_files_README, call.path_package,
                                            call.file_contents,
                                            call.codegen_readme_rendered,
                                            call.parsed, call.readable)
    /\ UNCHANGED <<selftest_vars, call, circuits>>

SpecReadme == ReadmeInit /\ [][ReadmeCall]_vars

(***************************************************************************)
(* package_files_validate_config_py and package_files_validate_customize_py.*)
(***************************************************************************)
\* Most fragments of a config string and of the message of an SDKException.
MaxConfigFrags == 3
MaxMessageFrags == 3

\* the catalog entry package_files["config.py"]
package_files_config_py ==
    [pass_name |-> "config.py: pass_name",
     pass_msg |-> "config.py: pass_msg",
     pass_solution |-> "config.py: pass_solution {0}",
     warn_name |-> "config.py: warn_name",
     warn_msg |-> "config.py: warn_msg",
     warn_severity |-> SEVERITY_LEVEL_INFO,
     warn_solution |-> "config.py: warn_solution",
     fail_name |-> "config.py: fail_name",
     fail_msg |-> "config.py: fail_msg {0}",
     fail_severity |-> SEVERITY_LEVEL_CRITICAL,
     fail_solution |-> "config.py: fail_solution"]

\* the catalog entry package_files["customize.py"]
package_files_customize_py ==
    [pass_name |-> "customize.py: pass_name",
     pass_msg |-> "customize.py: pass_msg",
     pass_solution |-> "customize.py: pass_solution {0}",
     fail_name |-> "customize.py: fail_name",
     fail_msg |-> "customize.py: fail_msg {0}",
     fail_severity |-> SEVERITY_LEVEL_CRITICAL,
     fail_solution |-> "customize.py: fail_solution"]

\* str(e) of SDKException(message): the message after "\nERROR: "
str_SDKException(message) == <<"\n">> \o ERROR_PREFIX \o message

\* what a parser of package_file_helpers gives: a value or an SDKException
ParserReturns(value) == [kind |-> "return", value |-> value]
ParserRaises(message) == [kind |-> "raise", exception |-> "SDKException", message |-> message]

\* str.split(sep) for a one-character sep
RECURSIVE split(_, _)
split(s, sep) ==
    LET seps == {i \in 1..Len(s) : s[i] = sep}
    IN  IF seps = {} THEN <<s>>
        ELSE LET at == CHOOSE i \in seps : \A j \in seps : i <= j
             IN  <<SubSeq(s, 1, at - 1)>> \o split(SubSeq(s, at + 1, Len(s)), sep)

\* sep.join(parts) of texts
RECURSIVE join_text(_, _)
join_text(sep, parts) ==
    IF parts = <<>> THEN <<>>
    ELSE IF Len(parts) = 1 THEN parts[1]
    ELSE Head(parts) \o sep \o join_text(sep, Tail(parts))

\* line 453 with the config string put into the solution as it is
config_solution_text_unindented(config_str) == config_str

\* line 453: "\n\t\t".join(config_str.split("\n"))
config_solution_text(config_str) ==
    join_text(<<"\n", "\t", "\t">>, split(config_str, "\n"))

\* lines 442-474
package_files_validate_config_py(attr_dict, parsed) ==
    IF parsed.kind = "raise"
    THEN ReturnedValue(SDKValidateIssue(
             attr_dict.fail_name,
             Format(attr_dict.fail_msg,
                    <<replace(str_SDKException(parsed.message), "\n", <<" ">>)>>),
             attr_dict.fail_severity, attr_dict.fail_solution))
    ELSE IF parsed.value # <<>>
    THEN ReturnedValue(SDKValidateIssue(
             attr_dict.pass_name, attr_dict.pass_msg, SEVERITY_LEVEL_DEBUG,
             Format(attr_dict.pass_solution, <<config_solution_text(parsed.value)>>)))
    ELSE ReturnedValue(SDKValidateIssue(attr_dict.warn_name, attr_dict.warn_msg,
                                        attr_dict.warn_severity, attr_dict.warn_solution))

\* lines 512-513 with the last "ERROR" of the message in place of the first
customize_message_last_occurrence(text) ==
    LET message == replace(text, "\n", <<" ">>)
    IN  [at |-> rfind(message, ERROR_TOKEN),
         text |-> SliceFrom(message, rfind(message, ERROR_TOKEN))]

\* lines 512-513: str(e).replace("\n", " ") from message.index("ERROR") on;
\* at is -1 when index raises ValueError
customize_message(text) ==
    LET message == replace(text, "\n", <<" ">>)
    IN  [at |-> find(message, ERROR_TOKEN),
         text |-> SliceFrom(message, find(message, ERROR_TOKEN))]

\* lines 496-520
package_files_validate_customize_py(attr_dict, parsed) ==
    IF parsed.kind = "return"
    THEN ReturnedValue(SDKValidateIssue(
             attr_dict.pass_name, attr_dict.pass_msg, SEVERITY_LEVEL_DEBUG,
             Format(attr_dict.pass_solution, <<parsed.value>>)))
    ELSE LET message == customize_message(str_SDKException(parsed.message))
         IN  IF message.at = -1 THEN Raised("ValueError")
             ELSE ReturnedValue(SDKValidateIssue(
                      attr_dict.fail_name, Format(attr_dict.fail_msg, <<message.text>>),
                      attr_dict.fail_severity, attr_dict.fail_solution))

\* config strings, import definitions and messages of an SDKException
ConfigFragments == {<<"[", "a", "]">>, <<"\n">>, <<"b", "=", "c">>}
MessageFragments == {<<"x">>, <<"\n">>, ERROR_TOKEN}
ImportDefinitions == {[action_order |-> <<>>, actions |-> <<>>],
                      [action_order |-> <<>>, actions |-> <<"a">>]}

ParseInit ==
    /\ SelftestIdle
    /\ \/ \E parsed \in {ParserReturns(c) :
                            c \in ConcatsUpTo(ConfigFragments, MaxConfigFrags)}
                        \cup {ParserRaises(m) :
                                 m \in ConcatsUpTo(MessageFragments, MaxMessageFrags)} :
              call = [func |-> "package_files_validate_config_py", parsed |-> parsed]
       \/ \E parsed \in {ParserReturns(d) : d \in ImportDefinitions}
                        \cup {ParserRaises(m) :
                                 m \in ConcatsUpTo(MessageFragments, MaxMessageFrags)} :
              call = [func |-> "package_files_validate_customize_py", parsed |-> parsed]
    /\ ret = NoReturn

ConfigPyCall ==
    /\ call.func = "package_files_validate_config_py"
    /\ ret = NoReturn
    /\ ret' = package_files_validate_config_py(package_files_config_py, call.parsed)
    /\ UNCHANGED <<selftest_vars, call, circuits>>

CustomizePyCall ==
    /\ call.func = "package_files_validate_customize_py"
    /\ ret = NoReturn
    /\ ret' = package_files_validate_customize_py(package_files_customize_py, call.parsed)
    /\ UNCHANGED <<selftest_vars, call, circuits>>

ParseNext == ConfigPyCall \/ CustomizePyCall

SpecParse == ParseInit /\ [][ParseNext]_vars

(***************************************************************************)
(* setup_py_attributes: the fail_func of every attribute of setup.py.  A   *)
(* fail_func built on re.findall returns the list of matches, which fails  *)
(* the attribute when it is not empty.                                     *)
(***************************************************************************)
\* Most fragments of an attribute value, most entries of install_requires,
\* highest major and minor number of a python_requires version.
MaxValueFrags == 3
MaxRequirements == 2
MaxMajor == 4
MaxMinor == 11

LowercaseLetters == {"a", "b", "c", "d", "e", "f", "g", "h", "i", "j", "k", "l", "m", "n", "o", "p", "q", "r", "s", "t", "u", "v", "w", "x", "y", "z"}

MIN_SUPPORTED_PY_VERSION == <<3, 6>>

\* bool(x) of a list
Truthy(list) == list # <<>>

\* re.findall(r"[^a-z_]+", s): the longest runs of characters that are
\* neither a lowercase letter nor an underscore
RECURSIVE findall_not_lowercase(_)
findall_not_lowercase(s) ==
    LET other(i) == s[i] \notin LowercaseLetters \cup {"_"}
        starts == {i \in 1..Len(s) : other(i)}
    IN  IF starts = {} THEN <<>>
        ELSE LET first == CHOOSE i \in starts : \A j \in starts : i <= j
                 stops == {i \in first..Len(s) : \A k \in first..i : other(k)}
                 last == CHOOSE i \in stops : \A j \in stops : j <= i
             IN  <<SubSeq(s, first, last)>>
                 \o findall_not_lowercase(SubSeq(s, last + 1, Len(s)))

\* "$" of a pattern without re.MULTILINE at the 0-based index i of s: the end
\* of s, or the newline that is the last character of s
AtDollar(s, i) == i = Len(s) \/ (i = Len(s) - 1 /\ s[Len(s)] = "\n")

\* line 14: re.findall(r"[^a-z_]+", str(x))
name_fail_func(x) == findall_not_lowercase(x)

\* lines 22, 30, 38 with str.startswith and str.endswith for "^" and "$"
placeholder_fail_func_endswith(x) ==
    (IF startswith(x, <<"<", "<">>) THEN <<<<"<", "<">>>> ELSE <<>>)
    \o (IF Len(x) >= 2 /\ OccursAt(x, <<">", ">">>, Len(x) - 2)
        THEN <<<<">", ">">>>> ELSE <<>>)

\* lines 22, 30, 38: re.findall(r"^<<|>>$", str(x))
placeholder_fail_func(x) ==
    (IF OccursAt(x, <<"<", "<">>, 0) THEN <<<<"<", "<">>>> ELSE <<>>)
    \o (IF \E i \in 0..Len(x) : OccursAt(x, <<">", ">">>, i) /\ AtDollar(x, i + 2)
        THEN <<<<">", ">">>>> ELSE <<>>)

EXAMPLE_COM == <<"@", "e", "x", "a", "m", "p", "l", "e", ".", "c", "o", "m">>

\* line 46: re.findall(r"@example\.com", str(x)); two matches never overlap
author_email_fail_func(x) ==
    [k \in 1..Cardinality({i \in 0..Len(x) : OccursAt(x, EXAMPLE_COM, i)}) |-> EXAMPLE_COM]

DEFAULT_DESCRIPTION == <<"R", "e", "s", "i", "l", "i", "e", "n", "t", " ", "C", "i", "r", "c", "u", "i", "t", "s", " ", "C", "o", "m", "p", "o", "n", "e", "n", "t", "s">>

\* lines 54, 62: re.findall(r"^(Resilient Circuits Components).+", str(x)),
\* the list of what the group matched; "." is any character but a newline
description_fail_func(x) ==
    IF /\ OccursAt(x, DEFAULT_DESCRIPTION, 0)
       /\ Len(x) > Len(DEFAULT_DESCRIPTION)
       /\ x[Len(DEFAULT_DESCRIPTION) + 1] # "\n"
    THEN <<DEFAULT_DESCRIPTION>> ELSE <<>>

\* package_helpers.get_dependency_from_install_requires: the first entry of
\* install_requires that holds dependency_name, None when there is none
get_dependency_from_install_requires(install_requires, dependency_name) ==
    LET hits == {i \in 1..Len(install_requires) :
                    Contains(install_requires[i], dependency_name)}
    IN  IF hits = {} THEN None
        ELSE install_requires[CHOOSE i \in hits : \A j \in hits : i <= j]

RESILIENT_CIRCUITS_UNDERSCORE == <<"r", "e", "s", "i", "l", "i", "e", "n", "t", "_", "c", "i", "r", "c", "u", "i", "t", "s">>
RESILIENT_CIRCUITS_HYPHEN == <<"r", "e", "s", "i", "l", "i", "e", "n", "t", "-", "c", "i", "r", "c", "u", "i", "t", "s">>

\* lines 70-73 with the first spelling only
install_requires_fail_func_one_spelling(x) ==
    get_dependency_from_install_requires(x, RESILIENT_CIRCUITS_UNDERSCORE) = None

\* lines 70-73
install_requires_fail_func(x) ==
    IF get_dependency_from_install_requires(x, RESILIENT_CIRCUITS_UNDERSCORE) # None
    THEN FALSE
    ELSE IF get_dependency_from_install_requires(x, RESILIENT_CIRCUITS_HYPHEN) # None
    THEN FALSE
    ELSE TRUE

DecimalDigits == <<"0", "1", "2", "3", "4", "5", "6", "7", "8", "9">>

\* str(n) of a natural number
RECURSIVE str_int(_)
str_int(n) ==
    IF n < 10 THEN <<DecimalDigits[n + 1]>>
    ELSE str_int(n \div 10) \o <<DecimalDigits[(n % 10) + 1]>>

IsNumber(text) ==
    text # <<>> /\ \A i \in 1..Len(text) : \E d \in 1..10 : DecimalDigits[d] = text[i]

\* int(text) of a text of decimal digits
RECURSIVE int(_)
int(text) ==
    IF text = <<>> THEN 0
    ELSE 10 * int(SubSeq(text, 1, Len(text) - 1))
         + (CHOOSE d \in 0..9 : DecimalDigits[d + 1] = text[Len(text)])

\* package_helpers.get_required_python_version: the (major, minor) of a
\* python_requires value ">=major.minor", an SDKException for any other value
get_required_python_version(x) ==
    LET version == split(SliceFrom(x, 2), ".")
    IN  IF /\ startswith(x, <<">", "=">>)
           /\ Len(version) = 2
           /\ IsNumber(version[1]) /\ IsNumber(version[2])
        THEN ReturnedValue(<<int(version[1]), int(version[2])>>)
        ELSE Raised("SDKException")

\* line 83 with both numbers of the version compared one by one
tuple_less_each(a, b) == a[1] < b[1] /\ a[2] < b[2]

\* line 83: a < b of two tuples of two numbers
tuple_less(a, b) == a[1] < b[1] \/ (a[1] = b[1] /\ a[2] < b[2])

\* line 83
python_requires_fail_func(x) ==
    LET version == get_required_python_version(x)
    IN  IF version.kind = "raise" THEN version
        ELSE ReturnedValue(tuple_less(version.value, MIN_SUPPORTED_PY_VERSION))

\* values of the attributes
NameFragments == {<<"a">>, <<"_">>, <<"0">>, <<" ">>, <<"A">>, <<"\n">>}
PlaceholderAttributes == {"display_name", "license", "author"}
PlaceholderFragments == {<<"<", "<">>, <<">", ">">>, <<"x">>, <<"\n">>, <<"<">>}
EmailFragments == {<<"a">>, EXAMPLE_COM, SubSeq(EXAMPLE_COM, 1, 8), SubSeq(EXAMPLE_COM, 9, 12), <<"@", "e", "x", "a", "m", "p", "l", "e", "_", "c", "o", "m">>}
DescriptionAttributes == {"description", "long_description"}
DescriptionFragments == {DEFAULT_DESCRIPTION, <<"x">>, <<"\n">>, SubSeq(DEFAULT_DESCRIPTION, 1, 9)}
Requirements == {RESILIENT_CIRCUITS_UNDERSCORE \o <<">", "=", "3", "0", ".", "0", ".", "0">>, RESILIENT_CIRCUITS_HYPHEN \o <<">", "=", "3", "0", ".", "0", ".", "0">>, RESILIENT_CIRCUITS_UNDERSCORE, <<"b", "o", "t", "o", "3">>, <<"f", "n", "-", "u", "t", "i", "l", "i", "t", "i", "e", "s">>}
Comparators == {<<">", "=">>, <<"<">>, <<"<", "=">>, <<">">>, <<"=", "=">>}
PythonRequires == {c \o str_int(major) \o <<".">> \o str_int(minor) : c \in Comparators, major \in 0..MaxMajor, minor \in 0..MaxMinor} \cup {c \o str_int(major) : c \in Comparators \ {<<">", "=">>}, major \in 0..MaxMajor}

FailFuncCall(attr, value) == [func |-> "fail_func", attr |-> attr, value |-> value]

SetupPyInit ==
    /\ SelftestIdle
    /\ \/ \E x \in ConcatsUpTo(NameFragments, MaxValueFrags) :
              call = FailFuncCall("name", x)
       \/ \E attr \in PlaceholderAttributes,
             x \in ConcatsUpTo(PlaceholderFragments, MaxValueFrags) :
              call = FailFuncCall(attr, x)
       \/ \E x \in ConcatsUpTo(EmailFragments, MaxValueFrags) :
              call = FailFuncCall("author_email", x)
       \/ \E attr \in DescriptionAttributes,
             x \in ConcatsUpTo(DescriptionFragments, MaxValueFrags) :
              call = FailFuncCall(attr, x)
       \/ \E x \in SeqsUpTo(Requirements, MaxRequirements) :
              call = FailFuncCall("install_requires", x)
       \/ \E x \in PythonRequires :
              call = FailFuncCall("python_requires", x)
    /\ ret = NoReturn

NameFailFunc ==
    /\ call.func = "fail_func" /\ call.attr = "name"
    /\ ret = NoReturn
    /\ ret' = ReturnedValue(name_fail_func(call.value))
    /\ UNCHANGED <<selftest_vars, call, circuits>>

PlaceholderFailFunc ==
    /\ call.func = "fail_func" /\ call.attr \in PlaceholderAttributes
    /\ ret = NoReturn
    /\ ret' = ReturnedValue(placeholder_fail_func(call.value))
    /\ UNCHANGED <<selftest_vars, call, circuits>>

AuthorEmailFailFunc ==
    /\ call.func = "fail_func" /\ call.attr = "author_email"
    /\ ret = NoReturn
    /\ ret' = ReturnedValue(author_email_fail_func(call.value))
    /\ UNCHANGED <<selftest_vars, call, circuits>>

DescriptionFailFunc ==
    /\ call.func = "fail_func" /\ call.attr \in DescriptionAttributes
    /\ ret = NoReturn
    /\ ret' = ReturnedValue(description_fail_func(call.value))
    /\ UNCHANGED <<selftest_vars, call, circuits>>

InstallRequiresFailFunc ==
    /\ call.func = "fail_func" /\ call.attr = "install_requires"
    /\ ret = NoReturn
    /\ ret' = ReturnedValue(install_requires_fail_func(call.value))
    /\ UNCHANGED <<selftest_vars, call, circuits>>

PythonRequiresFailFunc ==
    /\ call.func = "fail_func" /\ call.attr = "python_requires"
    /\ ret = NoReturn
    /\ ret' = python_requires_fail_func(call.value)
    /\ UNCHANGED <<selftest_vars, call, circuits>>

SetupPyNext ==
    \/ NameFailFunc
    \/ PlaceholderFailFunc
    \/ AuthorEmailFailFunc
    \/ DescriptionFailFunc
    \/ InstallRequiresFailFunc
    \/ PythonRequiresFailFunc

SpecSetupPy == SetupPyInit /\ [][SetupPyNext]_vars

(***************************************************************************)
(* The selftest rules: selftest_attributes and the three checks that come  *)
(* before selftest_run_selftestpy, evaluated one after the other.          *)
(***************************************************************************)
RESILIENT_LIBRARIES_VERSION == <<"4", "3", ".", "0", ".", "0">>
CIRCUITS_PACKAGE_NAME == "resilient-circuits"

selftest_attributes_0 ==
    [fail_name |-> "'resilient-circuits' version is too low",
     fail_msg |-> "'resilient-circuits=={0}' is not supported",
     fail_solution |-> "Upgrade 'resilient-circuits' by running 'pip install 'resilient-circuits>=43.0.0''",
     missing_name |-> "'resilient-circuits' not found",
     missing_msg |-> "'resilient-circuits' is not installed in your python environment",
     missing_solution |-> "Please install 'resilient-circuits' by running 'pip install 'resilient-circuits''",
     severity |-> SEVERITY_LEVEL_CRITICAL,
     pass_name |-> "'resilient-circuits' found in env",
     pass_msg |-> "'resilient-circuits' was found in the python environment with the minimum version installed"]

selftest_attributes_1 ==
    [fail_name |-> "'{0}' not found",
     fail_msg |-> "'{0}' is not installed in your python environment",
     solution |-> "Please install '{0}' by running 'pip install {1}'",
     severity |-> SEVERITY_LEVEL_CRITICAL,
     pass_name |-> "'{0}' found in env",
     pass_msg |-> "'{0}' is correctly installed in your python environment"]

selftest_attributes_2 ==
    [fail_name |-> "selftest.py not found",
     fail_msg |-> "selftest.py is a required file",
     solution |-> "Please run codegen --reload and implement the templated selftest function",
     severity |-> SEVERITY_LEVEL_CRITICAL,
     pass_name |-> "selftest.py found",
     pass_msg |-> "selftest.py file found at path '{0}'"]

\* the rules with selftest_run_selftestpy as the first of the list
selftest_attributes_run_first ==
    <<[func |-> "selftest_run_selftestpy", attr_dict |-> selftest_attributes_3],
      [func |-> "selftest_validate_resilient_circuits_installed", attr_dict |-> selftest_attributes_0],
      [func |-> "selftest_validate_package_installed", attr_dict |-> selftest_attributes_1],
      [func |-> "selftest_validate_selftestpy_file_exists", attr_dict |-> selftest_attributes_2]>>

\* lines 106-169: the list of the rules, each with its "func"
selftest_attributes ==
    <<[func |-> "selftest_validate_resilient_circuits_installed", attr_dict |-> selftest_attributes_0],
      [func |-> "selftest_validate_package_installed", attr_dict |-> selftest_attributes_1],
      [func |-> "selftest_validate_selftestpy_file_exists", attr_dict |-> selftest_attributes_2],
      [func |-> "selftest_run_selftestpy", attr_dict |-> selftest_attributes_3]>>

\* pkg_resources.parse_version of "major.minor.patch": a version with its
\* numbers as the release
parse_version(text) ==
    LET parts == split(text, ".")
    IN  [installed |-> TRUE, release |-> [i \in 1..Len(parts) |-> int(parts[i])]]

\* the None that get_package_version returns for a package that is not
\* installed
NoVersion == [installed |-> FALSE, release |-> <<>>]

\* a < b with the minor numbers only
version_less_minor_only(a, b) == a.release[2] < b.release[2]

\* a < b of two versions of three numbers
version_less(a, b) ==
    \E i \in 1..3 :
        /\ a.release[i] < b.release[i]
        /\ \A j \in 1..(i - 1) : a.release[j] = b.release[j]

\* a >= b of two versions
version_ge(a, b) == a = b \/ version_less(b, a)

\* lines 41-69: res_circuits_version is what sdk_helpers.get_package_version
\* returned, a version or None
selftest_validate_resilient_circuits_installed(attr_dict, res_circuits_version) ==
    LET minimum == parse_version(RESILIENT_LIBRARIES_VERSION)
    IN  IF res_circuits_version # NoVersion /\ version_ge(res_circuits_version, minimum)
        THEN Returned(TRUE, SDKValidateIssue(attr_dict.pass_name, attr_dict.pass_msg,
                                             SEVERITY_LEVEL_DEBUG, ""))
        ELSE IF res_circuits_version # NoVersion /\ version_less(res_circuits_version, minimum)
        THEN Returned(FALSE, SDKValidateIssue(
                 attr_dict.fail_name, Format(attr_dict.fail_msg, <<res_circuits_version>>),
                 attr_dict.severity, attr_dict.fail_solution))
        ELSE IF res_circuits_version = NoVersion
        THEN Returned(FALSE, SDKValidateIssue(attr_dict.missing_name, attr_dict.missing_msg,
                                              attr_dict.severity, attr_dict.missing_solution))
        ELSE Raised("SDKException")

\* lines 91-104: installed is what package_helpers.check_package_installed
\* returned
selftest_validate_package_installed(attr_dict, name, path_package, installed) ==
    IF installed
    THEN Returned(TRUE, SDKValidateIssue(
             Format(attr_dict.pass_name, <<name>>), Format(attr_dict.pass_msg, <<name>>),
             SEVERITY_LEVEL_DEBUG, ""))
    ELSE Returned(FALSE, SDKValidateIssue(
             Format(attr_dict.fail_name, <<name>>), Format(attr_dict.fail_msg, <<name>>),
             attr_dict.severity, Format(attr_dict.solution, <<name, path_package>>)))

\* lines 124-141: readable is FALSE when sdk_helpers.validate_file_paths
\* raised SDKException
selftest_validate_selftestpy_file_exists(attr_dict, path_selftest_py_file, readable) ==
    IF readable
    THEN Returned(TRUE, SDKValidateIssue(
             attr_dict.pass_name, Format(attr_dict.pass_msg, <<path_selftest_py_file>>),
             SEVERITY_LEVEL_DEBUG, ""))
    ELSE Returned(FALSE, SDKValidateIssue(attr_dict.fail_name, attr_dict.fail_msg,
                                          attr_dict.severity, attr_dict.solution))

\* what get_package_version can return for resilient-circuits
InstalledVersions ==
    {NoVersion} \cup {parse_version(text) : text \in {<<"4", "2", ".", "0", ".", "0">>, <<"4", "2", ".", "9", "9", ".", "0">>, <<"4", "3", ".", "0", ".", "0">>, <<"4", "3", ".", "0", ".", "1">>, <<"4", "4", ".", "0", ".", "0">>, <<"5", ".", "0", ".", "0">>}}

PATH_PACKAGE == "/p"
PATH_SELFTEST_PY_FILE == "/p/util/selftest.py"

\* the rule at the 1-based index the evaluation has arrived at
RuleToEvaluate(func) ==
    /\ call.func = "validate_selftest"
    /\ call.state = "evaluating"
    /\ call.rule \in 1..Len(selftest_attributes)
    /\ selftest_attributes[call.rule].func = func

\* the evaluation after a rule gave outcome: on to the next rule after a
\* success, the end after a failure or an exception
Evaluated(func, input, outcome) ==
    [func |-> "validate_selftest",
     rule |-> IF outcome.kind = "return" /\ outcome.success
              THEN call.rule + 1 ELSE call.rule,
     state |-> IF outcome.kind = "raise" THEN "raised"
               ELSE IF ~outcome.success THEN "stopped"
               ELSE IF call.rule = Len(selftest_attributes) THEN "done"
               ELSE "evaluating",
     input |-> input,
     results |-> Append(call.results, [func |-> func, outcome |-> outcome])]

RulesInit ==
    /\ pc = "idle"
    /\ package_name \in PackageNames
    /\ path_app_config \in AppConfigPaths
    /\ environ \in {None, "/old/app.config"}
    /\ proc = NoProcess
    /\ details = None
    /\ result = None
    /\ circuits = NoCircuits
    /\ call = [func |-> "validate_selftest", rule |-> 1, state |-> "evaluating",
               input |-> [none |-> TRUE], results |-> <<>>]
    /\ ret = NoReturn

CircuitsInstalledRule ==
    /\ RuleToEvaluate("selftest_validate_resilient_circuits_installed")
    /\ \E version \in InstalledVersions :
           call' = Evaluated("selftest_validate_resilient_circuits_installed",
                             [res_circuits_version |-> version],
                             selftest_validate_resilient_circuits_installed(
                                 selftest_attributes[call.rule].attr_dict, version))
    /\ UNCHANGED <<selftest_vars, ret, circuits>>

PackageInstalledRule ==
    /\ RuleToEvaluate("selftest_validate_package_installed")
    /\ \E installed \in BOOLEAN :
           call' = Evaluated("selftest_validate_package_installed",
                             [installed |-> installed],
                             selftest_validate_package_installed(
                                 selftest_attributes[call.rule].attr_dict,
                                 package_name, PATH_PACKAGE, installed))
    /\ UNCHANGED <<selftest_vars, ret, circuits>>

SelftestFileExistsRule ==
    /\ RuleToEvaluate("selftest_validate_selftestpy_file_exists")
    /\ \E readable \in BOOLEAN :
           call' = Evaluated("selftest_validate_selftestpy_file_exists",
                             [readable |-> readable],
                             selftest_validate_selftestpy_file_exists(
                                 selftest_attributes[call.rule].attr_dict,
                                 PATH_SELFTEST_PY_FILE, readable))
    /\ UNCHANGED <<selftest_vars, ret, circuits>>

\* selftest_run_selftestpy is called
RunSelftestRule ==
    /\ RuleToEvaluate("selftest_run_selftestpy")
    /\ pc = "idle"
    /\ pc' = "start"
    /\ UNCHANGED <<circuits, call, ret, package_name, path_app_config, environ, proc, details, result>>

\* selftest_run_selftestpy has returned or raised
RunSelftestRuleReturn ==
    /\ RuleToEvaluate("selftest_run_selftestpy")
    /\ pc = "done"
    /\ pc' = "returned"
    /\ call' = Evaluated("selftest_run_selftestpy", [none |-> TRUE], result)
    /\ UNCHANGED <<circuits, ret, package_name, path_app_config, environ, proc, details, result>>

RulesNext ==
    \/ CircuitsInstalledRule
    \/ PackageInstalledRule
    \/ SelftestFileExistsRule
    \/ RunSelftestRule
    \/ SetEnv
    \/ Popen
    \/ ChildExit
    \/ Poll
    \/ UnsetEnv
    \/ Communicate
    \/ Classify
    \/ RunSelftestRuleReturn

SpecSelftestRules == RulesInit /\ [][RulesNext]_vars

(***************************************************************************)
(* Every check function of sdk_validate_helpers: the selftest rules and    *)
(* the package-file checks.                                                *)
(***************************************************************************)
ChecksInit ==
    \/ RulesInit
    \/ ManifestInit
    \/ TemplateMatchInit
    \/ ApikeyInit
    \/ ParseInit
    \/ ReadmeInit

ChecksNext ==
    \/ CircuitsInstalledRule
    \/ PackageInstalledRule
    \/ SelftestFileExistsRule
    \/ RunSelftestRule
    \/ SetEnv
    \/ Popen
    \/ ChildExit
    \/ Poll
    \/ UnsetEnv
    \/ Communicate
    \/ Classify
    \/ RunSelftestRuleReturn
    \/ ManifestCall
    \/ TemplateMatchCall
    \/ ApikeyCall
    \/ ConfigPyCall
    \/ CustomizePyCall
    \/ ReadmeCall

SpecChecks == ChecksInit /\ [][ChecksNext]_vars

(***************************************************************************)
(* selftest_run_selftestpy with the two pipes of its child: Popen at line  *)
(* 178 gives the child a pipe for stdout and one for stderr, and the       *)
(* parent reads neither before proc.communicate() at line 197.  A pipe     *)
(* holds PipeCapacity characters; a write of more blocks the child until   *)
(* the parent reads.                                                       *)
(***************************************************************************)
\* Characters a pipe holds before a write to it blocks.
PipeCapacity == 30

\* line 178: the child is started with what it is going to write, both pipes
\* empty
PipePopen ==
    /\ pc = "popen"
    /\ \/ /\ \E out \in StdoutTexts, err \in StderrTexts :
                proc' = [state |-> "running", returncode |-> None,
                         stdout |-> None, stderr |-> None,
                         to_stdout |-> out, to_stderr |-> err,
                         pipe_stdout |-> <<>>, pipe_stderr |-> <<>>]
          /\ pc' = "poll"
          /\ UNCHANGED result
       \/ /\ result' = Raised("OSError")
          /\ pc' = "done"
          /\ UNCHANGED proc
    /\ UNCHANGED <<circuits, call, ret, package_name, path_app_config, environ, details>>

\* what a write of text into a pipe holding held puts into the pipe
Written(held, text) == SubSeq(text, 1, Min(PipeCapacity - Len(held), Len(text)))

\* the child writes to its stdout what the pipe has room for
ChildWriteStdout ==
    /\ proc.state = "running"
    /\ proc.to_stdout # <<>>
    /\ Len(proc.pipe_stdout) < PipeCapacity
    /\ LET now == Written(proc.pipe_stdout, proc.to_stdout)
       IN  proc' = [proc EXCEPT !.pipe_stdout = @ \o now,
                                !.to_stdout = SubSeq(@, Len(now) + 1, Len(@))]
    /\ UNCHANGED <<circuits, call, ret, pc, package_name, path_app_config, environ, details, result>>

\* the child writes to its stderr what the pipe has room for
ChildWriteStderr ==
    /\ proc.state = "running"
    /\ proc.to_stderr # <<>>
    /\ Len(proc.pipe_stderr) < PipeCapacity
    /\ LET now == Written(proc.pipe_stderr, proc.to_stderr)
       IN  proc' = [proc EXCEPT !.pipe_stderr = @ \o now,
                                !.to_stderr = SubSeq(@, Len(now) + 1, Len(@))]
    /\ UNCHANGED <<circuits, call, ret, pc, package_name, path_app_config, environ, details, result>>

\* the child exits once it has written all its output
ChildExitAfterWriting ==
    /\ proc.state = "running"
    /\ proc.to_stdout = <<>>
    /\ proc.to_stderr = <<>>
    /\ \E code \in 0..MaxReturnCode :
          proc' = [proc EXCEPT !.state = "exited", !.returncode = code]
    /\ UNCHANGED <<circuits, call, ret, pc, package_name, path_app_config, environ, details, result>>

\* lines 196-198: the parent reads both pipes to their end
PipeCommunicate ==
    /\ pc = "communicate"
    /\ proc' = [proc EXCEPT !.stdout = proc.pipe_stdout, !.stderr = proc.pipe_stderr,
                            !.pipe_stdout = <<>>, !.pipe_stderr = <<>>]
    /\ details' = proc.pipe_stderr
    /\ pc' = "classify"
    /\ UNCHANGED <<circuits, call, ret, package_name, path_app_config, environ, result>>

PipesNext ==
    \/ SetEnv
    \/ PipePopen
    \/ ChildWriteStdout
    \/ ChildWriteStderr
    \/ ChildExitAfterWriting
    \/ Poll
    \/ UnsetEnv
    \/ PipeCommunicate
    \/ Classify

SpecPipes == Init /\ [][PipesNext]_vars

(***************************************************************************)
(* resilient_circuits.app.run() called by several processes with the same  *)
(* lock file.  filelock.FileLock locks the file with flock(LOCK_EX |       *)
(* LOCK_NB): one holder at a time; acquire(timeout=1) tries again after a  *)
(* sleep until it holds the lock or the timeout has passed, and the with   *)
(* block releases the lock however it is left.                             *)
(***************************************************************************)
\* Processes that call run().
NumProcs == 2
\* Failed tries of lock.acquire that fit into its timeout of 1 second.
MaxPolls == 2

Procs == 1..NumProcs

FAILED_TO_ACQUIRE == "Failed to acquire lock on {0} - you may have another instance of Resilient Circuits running"
UNABLE_TO_LOCK == "Unable to lock {0}: {1}"

\* a process entering run()
StartOfRun ==
    [pc |-> "get_lock", polls |-> 0, application |-> None, printed |-> None,
     exception |-> None, raised_at |-> None, outcome |-> None]

RunInit ==
    /\ pc = "idle"
    /\ package_name = None
    /\ path_app_config = None
    /\ environ = None
    /\ proc = NoProcess
    /\ details = None
    /\ result = None
    /\ call = NoCall
    /\ ret = NoReturn
    /\ \E app_lock_file \in {None, "/tmp/lockfile"}, resilient_dir \in BOOLEAN :
          circuits = [app_lock_file |-> app_lock_file,
                      resilient_dir |-> resilient_dir,
                      locked_by |-> 0,
                      run |-> [p \in Procs |-> StartOfRun]]

\* process p raises exc at the statement it is at
Raise(p, exc) ==
    [circuits EXCEPT !.run[p].exception = exc, !.run[p].raised_at = circuits.run[p].pc]

\* lines 251-256, 259-261: the path of the lock file; the directory of the
\* default path is looked for
GetLock ==
    /\ \E p \in Procs :
          /\ circuits.run[p].pc = "get_lock"
          /\ circuits' = [circuits EXCEPT !.run[p].pc =
                 IF circuits.app_lock_file = None /\ ~circuits.resilient_dir
                 THEN "makedirs" ELSE "acquire"]
    /\ UNCHANGED <<selftest_vars, call, ret>>

\* line 257: os.makedirs creates the directory, or raises OSError: always
\* when the directory exists by now, and when it may not be created.  Line
\* 269 is before the try statement, so the exception leaves run().
MakeDirs ==
    /\ \E p \in Procs :
          /\ circuits.run[p].pc = "makedirs"
          /\ \/ /\ ~circuits.resilient_dir
                /\ circuits' = [circuits EXCEPT !.resilient_dir = TRUE,
                                                !.run[p].pc = "acquire"]
             \/ circuits' = [Raise(p, "OSError") EXCEPT !.run[p].pc = "done",
                                                        !.run[p].outcome = "raised"]
    /\ UNCHANGED <<selftest_vars, call, ret>>

\* lock.acquire that takes the lock whoever holds it
TryAcquire_not_exclusive ==
    /\ \E p \in Procs :
          /\ circuits.run[p].pc = "acquire"
          /\ circuits' = [circuits EXCEPT !.locked_by = p, !.run[p].pc = "App"]
    /\ UNCHANGED <<selftest_vars, call, ret>>

\* line 275: one try of lock.acquire(timeout=1).  The lock is taken when no
\* process holds it; when one does, the try is repeated until the timeout
\* has passed and then filelock.Timeout is raised; opening the lock file can
\* raise OSError.  Line 276 holds when the lock is taken.
TryAcquire ==
    /\ \E p \in Procs :
          /\ circuits.run[p].pc = "acquire"
          /\ \/ /\ circuits.locked_by = 0
                /\ circuits' = [circuits EXCEPT !.locked_by = p, !.run[p].pc = "App"]
             \/ /\ circuits.locked_by # 0
                /\ circuits.run[p].polls < MaxPolls
                /\ circuits' = [circuits EXCEPT !.run[p].polls = @ + 1]
             \/ /\ circuits.locked_by # 0
                /\ circuits.run[p].polls = MaxPolls
                /\ circuits' = [Raise(p, "Timeout") EXCEPT !.run[p].pc = "except Timeout"]
             \/ circuits' = [Raise(p, "OSError") EXCEPT !.run[p].pc = "except OSError"]
    /\ UNCHANGED <<selftest_vars, call, ret>>

\* a locked region that keeps the lock when an exception leaves it
LeaveLockedRegion_keeping_lock(p, exc) ==
    LET raised == IF exc = None THEN circuits ELSE Raise(p, exc)
    IN  [raised EXCEPT
            !.locked_by = IF exc = None THEN 0 ELSE @,
            !.run[p].pc = IF exc = "OSError" THEN "except OSError" ELSE "done",
            !.run[p].outcome = IF exc = None THEN "returned"
                               ELSE IF exc = "OSError" THEN None ELSE "raised"]

\* lines 275-285: the with block is left, by its end (exc is None) or by an
\* exception: the lock is released, then OSError goes to its handler and any
\* other exception leaves run()
LeaveLockedRegion(p, exc) ==
    LET raised == IF exc = None THEN circuits ELSE Raise(p, exc)
    IN  [raised EXCEPT
            !.locked_by = 0,
            !.run[p].pc = IF exc = "OSError" THEN "except OSError" ELSE "done",
            !.run[p].outcome = IF exc = None THEN "returned"
                               ELSE IF exc = "OSError" THEN None ELSE "raised"]

\* what App() and App.run() can raise: OSError or an exception of another type
AppExceptions == {"OSError", "Exception"}

\* line 277: application = App(*args, **kwargs)
ConstructApp ==
    /\ \E p \in Procs :
          /\ circuits.run[p].pc = "App"
          /\ \/ circuits' = [circuits EXCEPT !.run[p].application = "constructed",
                                             !.run[p].pc = "App.run"]
             \/ \E exc \in AppExceptions : circuits' = LeaveLockedRegion(p, exc)
    /\ UNCHANGED <<selftest_vars, call, ret>>

\* line 278: application.run() returns or raises
AppRun ==
    /\ \E p \in Procs :
          /\ circuits.run[p].pc = "App.run"
          /\ \E exc \in AppExceptions \cup {None} : circuits' = LeaveLockedRegion(p, exc)
    /\ UNCHANGED <<selftest_vars, call, ret>>

\* a handler of filelock.Timeout that goes on to construct the App
ExceptTimeout_then_App ==
    /\ \E p \in Procs :
          /\ circuits.run[p].pc = "except Timeout"
          /\ circuits' = [circuits EXCEPT !.run[p].printed = FAILED_TO_ACQUIRE,
                                          !.run[p].pc = "App"]
    /\ UNCHANGED <<selftest_vars, call, ret>>

\* lines 280-282
ExceptTimeout ==
    /\ \E p \in Procs :
          /\ circuits.run[p].pc = "except Timeout"
          /\ circuits' = [circuits EXCEPT !.run[p].printed = FAILED_TO_ACQUIRE,
                                          !.run[p].pc = "done",
                                          !.run[p].outcome = "returned"]
    /\ UNCHANGED <<selftest_vars, call, ret>>

\* lines 283-285
ExceptOSError ==
    /\ \E p \in Procs :
          /\ circuits.run[p].pc = "except OSError"
          /\ circuits' = [circuits EXCEPT !.run[p].printed = UNABLE_TO_LOCK,
                                          !.run[p].pc = "done",
                                          !.run[p].outcome = "returned"]
    /\ UNCHANGED <<selftest_vars, call, ret>>

RunNext ==
    \/ GetLock
    \/ MakeDirs
    \/ TryAcquire
    \/ ConstructApp
    \/ AppRun
    \/ ExceptTimeout
    \/ ExceptOSError

SpecRun == RunInit /\ [][RunNext]_vars

(***************************************************************************)
(* A check function called twice in a row with the same arguments, the     *)
(* child of the second run ending as the child of the first did.  What     *)
(* outlives a call of selftest_run_selftestpy is os.environ; proc, details *)
(* and the result are locals of the call.                                  *)
(***************************************************************************)
TwiceInit ==
    \/ /\ SelftestInit
       /\ call = [func |-> "selftest_run_selftestpy", run |-> 1]
       /\ ret = NoReturn
    \/ ManifestInit

\* the child of the first run ends
FirstChildExit == call.func = "selftest_run_selftestpy" /\ call.run = 1 /\ ChildExit

\* the output of the child of the first run is read
FirstCommunicate == call.func = "selftest_run_selftestpy" /\ call.run = 1 /\ Communicate

\* lines 169-178 again: the second call, os.environ as the first call left it
RunAgain ==
    /\ call.func = "selftest_run_selftestpy" /\ call.run = 1
    /\ pc = "done"
    /\ call' = [func |-> call.func, run |-> 2, first |-> [proc |-> proc, result |-> result]]
    /\ pc' = "start"
    /\ proc' = NoProcess
    /\ details' = None
    /\ result' = None
    /\ UNCHANGED <<circuits, ret, package_name, path_app_config, environ>>

\* the child of the second run ends with the exit code of the first
SecondChildExit ==
    /\ call.func = "selftest_run_selftestpy" /\ call.run = 2
    /\ proc.state = "running"
    /\ call.first.proc.state = "exited"
    /\ proc' = [proc EXCEPT !.state = "exited",
                            !.returncode = call.first.proc.returncode]
    /\ UNCHANGED <<circuits, call, ret, pc, package_name, path_app_config, environ, details, result>>

\* lines 196-198: the child of the second run wrote what the first wrote
SecondCommunicate ==
    /\ call.func = "selftest_run_selftestpy" /\ call.run = 2
    /\ pc = "communicate"
    /\ proc' = [proc EXCEPT !.stdout = call.first.proc.stdout,
                            !.stderr = call.first.proc.stderr]
    /\ details' = call.first.proc.stderr
    /\ pc' = "classify"
    /\ UNCHANGED <<circuits, call, ret, package_name, path_app_config, environ, result>>

\* lines 262-317 again, with the template and the file as they were
ManifestCallAgain ==
    /\ call.func = "package_files_manifest"
    /\ ret # NoReturn
    /\ "first" \notin DOMAIN call
    /\ call' = [func |-> call.func, file_rendered |-> call.file_rendered,
                file_contents |-> call.file_contents, first |-> ret]
    /\ ret' = ReturnedValue(package_files_manifest(package_files_MANIFEST,
                                call.file_rendered, call.file_contents))
    /\ UNCHANGED <<selftest_vars, circuits>>

TwiceNext ==
    \/ SetEnv
    \/ Popen
    \/ FirstChildExit
    \/ Poll
    \/ UnsetEnv
    \/ FirstCommunicate
    \/ Classify
    \/ RunAgain
    \/ SecondChildExit
    \/ SecondCommunicate
    \/ ManifestCall
    \/ ManifestCallAgain

SpecTwice == TwiceInit /\ [][TwiceNext]_vars

(***************************************************************************)
(* Properties of package_files_manifest.                                   *)
(***************************************************************************)
ManifestReturned == call.func = "package_files_manifest" /\ ret.kind = "return"

\* a template line is blank when it holds nothing but whitespace
IsBlank(line) == \A i \in 1..Len(line) : line[i] \in Whitespace

\* some line of the file is similar to the template line at 0.90 or more
HasSimilarLine(line, file_contents) ==
    \E i \in 1..Len(file_contents) : RatioGE(ratio(file_contents[i], line), <<9, 10>>)

\* the non-blank template lines without a similar line in the file
MissingTemplateLines(template_contents, file_contents) ==
    LET missing == SelectSeq(template_contents,
                             LAMBDA line : /\ ~IsBlank(line)
                                           /\ ~HasSimilarLine(line, file_contents))
    IN  [i \in 1..Len(missing) |-> strip(missing[i])]

\* C8: package_files_manifest returns a WARNING Issue whose description lists
\* exactly the stripped non-blank template lines, in template order, that no
\* line of the file matches with similarity >= 0.90, and it returns the DEBUG
\* pass Issue exactly when there is no such line; a blank template line is
\* never listed.
C8_ManifestListsUnmatchedTemplateLines ==
    ManifestReturned =>
        LET template_contents == splitlines(call.file_rendered)
            missing == MissingTemplateLines(template_contents, call.file_contents)
            issue == ret.value
        IN  /\ missing # <<>> =>
                /\ issue.severity = SEVERITY_LEVEL_WARN
                /\ issue.name = package_files_MANIFEST.fail_name
                /\ issue.description = Format(package_files_MANIFEST.fail_msg, <<missing>>)
            /\ missing = <<>> =>
                /\ issue.severity = SEVERITY_LEVEL_DEBUG
                /\ issue.name = package_files_MANIFEST.pass_name
            /\ issue.severity = SEVERITY_LEVEL_DEBUG <=> missing = <<>>
            /\ issue.severity = SEVERITY_LEVEL_WARN =>
                   \A i \in 1..Len(issue.description.args[1]) :
                       issue.description.args[1][i] # <<>>

\* a template with a blank line, a line the file matches only approximately
\* and a line the file does not match, reported as the one missing line
C8_Witness ==
    /\ ManifestReturned
    /\ ret.value.severity = SEVERITY_LEVEL_WARN
    /\ LET template_contents == splitlines(call.file_rendered)
       IN  /\ Len(template_contents) = 2
           /\ \E i \in 1..2 :
                  /\ ~IsBlank(template_contents[i])
                  /\ HasSimilarLine(template_contents[i], call.file_contents)
                  /\ \A j \in 1..Len(call.file_contents) :
                         call.file_contents[j] # template_contents[i]
           /\ Len(ret.value.description.args[1]) = 1

(***************************************************************************)
(* Properties of package_files_template_match.                             *)
(***************************************************************************)
TemplateMatchReturned ==
    call.func = "package_files_template_match" /\ ret.kind = "return"

\* the lines that a text joined with a separator was made of
Unjoin(joined) == [i \in 1..((Len(joined) + 1) \div 2) |-> joined[2 * i - 1]]

\* the diff lines of a failure description, without colour
DescribedDiff(issue) ==
    LET colored == Unjoin(issue.description.args[2])
    IN  [i \in 1..Len(colored) |-> colored[i].line]

\* the number of lines of the first hunk of a diff body: those before the
\* next "@@" line
RECURSIVE HunkLength(_)
HunkLength(lines) ==
    IF lines = <<>> \/ Head(lines)[1] = "@@" THEN 0 ELSE 1 + HunkLength(Tail(lines))

\* the texts of the lines of a hunk that carry one of the marks
MarkedTexts(lines, marks) ==
    LET marked == SelectSeq(lines, LAMBDA l : l[1] \in marks)
    IN  [i \in 1..Len(marked) |-> marked[i][2]]

\* Applying the hunks of a unified diff to the old lines from position pos
\* on: ok tells that each hunk removes what the old lines hold at its place,
\* out is what the old lines become.
RECURSIVE Patch(_, _, _)
Patch(old, body, pos) ==
    IF body = <<>> THEN [ok |-> TRUE, out |-> SliceFrom(old, pos)]
    ELSE LET range == Head(body)[2]
             length == IF Len(range) = 1 THEN 1 ELSE range[2]
             start == IF length = 0 THEN range[1] ELSE range[1] - 1
             n == HunkLength(Tail(body))
             lines == SubSeq(body, 2, n + 1)
             rest == Patch(old, SubSeq(body, n + 2, Len(body)), start + length)
         IN  [ok |-> /\ Head(body)[1] = "@@"
                     /\ start >= pos
                     /\ MarkedTexts(lines, {" ", "-"}) = Slice(old, start, start + length)
                     /\ rest.ok,
              out |-> Slice(old, pos, start) \o MarkedTexts(lines, {" ", "+"}) \o rest.out]

\* C9: package_files_template_match returns the DEBUG pass Issue when the
\* ratio between the lines of the file and the lines of the rendered template
\* is 1.0, which is when the two are equal, and for a ratio below 1.0 a
\* WARNING Issue whose description carries a unified diff that is not empty
\* and turns the template into the file.
C9_TemplateMatchPassesOnlyAtRatioOne ==
    TemplateMatchReturned =>
        LET template_contents == splitlines(call.file_rendered)
            r == ratio(call.file_contents, template_contents)
            attr_dict == package_files_template(call.filename)
            issue == ret.value
        IN  /\ r[1] = r[2] <=> call.file_contents = template_contents
            /\ r[1] = r[2] =>
                /\ issue.severity = SEVERITY_LEVEL_DEBUG
                /\ issue.name = attr_dict.pass_name
            /\ r[1] < r[2] =>
                /\ issue.severity = SEVERITY_LEVEL_WARN
                /\ issue.name = attr_dict.fail_name
                /\ issue.description.args[1] = <<100 * r[1], r[2]>>
                /\ LET diff == DescribedDiff(issue)
                   IN  /\ Len(diff) >= 3
                       /\ diff[1] = <<"---", <<"template_", call.filename>> >>
                       /\ diff[2] = <<"+++", call.filename>>
                       /\ LET patched == Patch(template_contents,
                                               SubSeq(diff, 3, Len(diff)), 0)
                          IN  patched.ok /\ patched.out = call.file_contents

\* a file that lacks a template line and holds one the template has not:
\* the diff has two hunks
C9_Witness ==
    /\ TemplateMatchReturned
    /\ ret.value.severity = SEVERITY_LEVEL_WARN
    /\ Len(call.file_contents) # Len(splitlines(call.file_rendered))
    /\ LET diff == DescribedDiff(ret.value)
       IN  /\ Cardinality({i \in 1..Len(diff) : diff[i][1] = "@@"}) = 2
           /\ \E i \in 1..Len(diff) : diff[i][1] = "-"
           /\ \E i \in 1..Len(diff) : diff[i][1] = "+"

(***************************************************************************)
(* Properties of package_files_apikey_pem.                                 *)
(***************************************************************************)
ApikeyReturned == call.func = "package_files_apikey_pem" /\ ret.kind = "return"

\* a comment is a line that begins with "#"
IsComment(line) == line # <<>> /\ line[1] = "#"

\* some line of the file that is no comment is the permission once trimmed
HasPermission(perm, file_contents) ==
    \E i \in 1..Len(file_contents) :
        ~IsComment(file_contents[i]) /\ strip(file_contents[i]) = perm

ReadmeReturned == call.func = "package_files_validate_readme" /\ ret.kind # "none"

\* the text stands somewhere in the line
HoldsText(line, text) ==
    \E k \in 0..(Len(line) - Len(text)) : SubSeq(line, k + 1, k + Len(text)) = text

\* the four conditions of the README check, in its order
IsCodegenTemplate == call.file_contents = splitlines(call.codegen_readme_rendered)
HasPlaceholder ==
    \E i \in 1..Len(call.file_contents) :
        HoldsText(call.file_contents[i],
                  <<"<", "!", "-", "-", " ", ":", ":", "C", "H", "A", "N", "G", "E", "_",
                    "M", "E", ":", ":", " ", "-", "-", ">">>)
HasTodo ==
    \E i \in 1..Len(call.file_contents) :
        HoldsText(call.file_contents[i], <<"T", "O", "D", "O">>)
HasInvalidScreenshot ==
    /\ call.parsed.kind = "return"
    /\ \E i \in 1..Len(call.parsed.value) :
           os_path_join(call.path_package, call.parsed.value[i]) \notin call.readable

ReadmeIssueIs(name) == ret.kind = "return" /\ ret.value.name = name

\* C6: package_files_validate_readme tests (1) the README being the codegen
\* template, (2) the placeholder comment, (3) "TODO", (4) screenshots that
\* cannot be read, in this order, and returns the Issue of the first of them
\* that holds, whatever the later ones are; it returns the pass Issue only
\* when none of the four holds.
C6_ReadmeFirstConditionWins ==
    ReadmeReturned =>
        /\ IsCodegenTemplate => ReadmeIssueIs(package_files_README.fail_codegen_name)
        /\ ~IsCodegenTemplate /\ HasPlaceholder
               => ReadmeIssueIs(package_files_README.fail_placeholder_name)
        /\ ~IsCodegenTemplate /\ ~HasPlaceholder /\ HasTodo
               => ReadmeIssueIs(package_files_README.fail_todo_name)
        /\ ~IsCodegenTemplate /\ ~HasPlaceholder /\ ~HasTodo /\ HasInvalidScreenshot
               => ReadmeIssueIs(package_files_README.fail_screenshots_name)
        /\ ReadmeIssueIs(package_files_README.pass_name)
               => /\ ~IsCodegenTemplate /\ ~HasPlaceholder /\ ~HasTodo
                  /\ ~HasInvalidScreenshot
                  /\ ret.value.severity = SEVERITY_LEVEL_DEBUG
        /\ (~IsCodegenTemplate /\ ~HasPlaceholder /\ ~HasTodo /\ ~HasInvalidScreenshot
                /\ call.parsed.kind = "return")
               => ReadmeIssueIs(package_files_README.pass_name)

\* a README that is the codegen template and also holds the placeholder, a
\* TODO and a screenshot that cannot be read: the codegen Issue is returned
C6_Witness ==
    /\ ReadmeReturned
    /\ IsCodegenTemplate /\ HasPlaceholder /\ HasTodo /\ HasInvalidScreenshot
    /\ ReadmeIssueIs(package_files_README.fail_codegen_name)

\* the path, taken from the package root, is that of a file which can be read
\* and lies below the package root
ResolvesUnderPackage(path) ==
    LET resolved == os_path_join(call.path_package, path)
    IN  /\ resolved \in call.readable
        /\ Len(resolved) > Len(call.path_package) + 1
        /\ SubSeq(resolved, 1, Len(call.path_package) + 1) = call.path_package \o <<"/">>

\* C7: for a README that passes the template, placeholder and TODO tests,
\* package_files_validate_readme returns a CRITICAL Issue that lists, in the
\* order of reference, exactly the screenshot paths which are not those of a
\* readable file below the package root, and the pass Issue exactly when
\* there is no such path.
C7_ListsPathsNotUnderPackage ==
    (/\ ReadmeReturned
     /\ ~IsCodegenTemplate /\ ~HasPlaceholder /\ ~HasTodo
     /\ call.parsed.kind = "return") =>
        LET invalid == SelectSeq(call.parsed.value,
                                 LAMBDA path : ~ResolvesUnderPackage(path))
        IN  /\ invalid # <<>> =>
                /\ ret.value.severity = SEVERITY_LEVEL_CRITICAL
                /\ ret.value.description =
                       Format(package_files_README.fail_screenshots_msg, <<invalid>>)
            /\ ReadmeIssueIs(package_files_README.pass_name) <=> invalid = <<>>


(***************************************************************************)
(* Properties of package_files_validate_config_py and                      *)
(* package_files_validate_customize_py.                                    *)
(***************************************************************************)
ConfigPyReturned ==
    call.func = "package_files_validate_config_py" /\ ret # NoReturn

CustomizePyReturned ==
    call.func = "package_files_validate_customize_py" /\ ret # NoReturn

\* text with a space in the place of every newline
Unlined(text) == [i \in 1..Len(text) |-> IF text[i] = "\n" THEN " " ELSE text[i]]

\* the lines of text are those of config, every line after the first one
\* behind two tabs
IsIndented(text, config) ==
    LET lines == split(text, "\n")
        config_lines == split(config, "\n")
    IN  /\ Len(lines) = Len(config_lines)
        /\ \A i \in 1..Len(lines) :
               lines[i] = IF i = 1 THEN config_lines[i]
                          ELSE <<"\t", "\t">> \o config_lines[i]

\* C11 as stated: the description of the CRITICAL Issue contains the text
\* the SDKException was raised with.
C11_DescriptionContainsExceptionText ==
    (ConfigPyReturned /\ call.parsed.kind = "raise") =>
        /\ ret.kind = "return"
        /\ ret.value.severity = SEVERITY_LEVEL_CRITICAL
        /\ Contains(ret.value.description.args[1], call.parsed.message)

\* C11: package_files_validate_config_py always returns an Issue, one of
\* three: for a non-empty config string the DEBUG pass Issue whose solution
\* holds the config string with two tabs after every newline; for the empty
\* config string the INFO Issue; for an SDKException of the parser the
\* CRITICAL Issue whose description holds str(e) with a space in the place of
\* every newline. The exception never leaves the function.
C11_ConfigPyThreeOutcomes ==
    ConfigPyReturned =>
        /\ ret.kind = "return"
        /\ (call.parsed.kind = "return" /\ call.parsed.value # <<>>) =>
               /\ ret.value.name = package_files_config_py.pass_name
               /\ ret.value.severity = SEVERITY_LEVEL_DEBUG
               /\ ret.value.solution.msg = package_files_config_py.pass_solution
               /\ IsIndented(ret.value.solution.args[1], call.parsed.value)
        /\ (call.parsed.kind = "return" /\ call.parsed.value = <<>>) =>
               /\ ret.value.name = package_files_config_py.warn_name
               /\ ret.value.severity = SEVERITY_LEVEL_INFO
        /\ call.parsed.kind = "raise" =>
               /\ ret.value.name = package_files_config_py.fail_name
               /\ ret.value.severity = SEVERITY_LEVEL_CRITICAL
               /\ ret.value.description.args[1] =
                      Unlined(str_SDKException(call.parsed.message))
               /\ Contains(ret.value.description.args[1], Unlined(call.parsed.message))
        /\ ret.value.name \in {package_files_config_py.pass_name,
                               package_files_config_py.warn_name,
                               package_files_config_py.fail_name}

\* the parser raised an SDKException with a message of two lines and the
\* function returned; elsewhere a config string of two lines passed
C11_Witness ==
    /\ ConfigPyReturned
    /\ call.parsed.kind = "raise"
    /\ call.parsed.message = <<"x", "\n", "x">>
    /\ ret.kind = "return"
    /\ ret.value.severity = SEVERITY_LEVEL_CRITICAL

\* C12 as stated: the description of the CRITICAL Issue is str(e) from its
\* first "ERROR" on.
C12_DescriptionIsExceptionTextFromError ==
    (CustomizePyReturned /\ call.parsed.kind = "raise") =>
        /\ ret.kind = "return"
        /\ ret.value.severity = SEVERITY_LEVEL_CRITICAL
        /\ ret.value.description.args[1] =
               SliceFrom(str_SDKException(call.parsed.message),
                         find(str_SDKException(call.parsed.message), ERROR_TOKEN))

\* C12: package_files_validate_customize_py always returns an Issue: the
\* DEBUG pass Issue when the parser returns, and for an SDKException the
\* CRITICAL Issue whose description holds str(e), a space in the place of
\* every newline, from its first "ERROR" on. No exception leaves the
\* function, whatever the message of the SDKException.
C12_CustomizePyNeverRaises ==
    CustomizePyReturned =>
        /\ ret.kind = "return"
        /\ call.parsed.kind = "return" =>
               /\ ret.value.name = package_files_customize_py.pass_name
               /\ ret.value.severity = SEVERITY_LEVEL_DEBUG
        /\ call.parsed.kind = "raise" =>
               LET text == Unlined(str_SDKException(call.parsed.message))
                   described == ret.value.description.args[1]
               IN  /\ ret.value.name = package_files_customize_py.fail_name
                   /\ ret.value.severity = SEVERITY_LEVEL_CRITICAL
                   /\ \E k \in 1..Len(text) :
                          /\ OccursAt(text, ERROR_TOKEN, k - 1)
                          /\ \A j \in 1..(k - 1) : ~OccursAt(text, ERROR_TOKEN, j - 1)
                          /\ described = SubSeq(text, k, Len(text))

\* the message of the SDKException itself holds "ERROR", after a newline
C12_Witness ==
    /\ CustomizePyReturned
    /\ call.parsed.kind = "raise"
    /\ call.parsed.message = <<"x", "\n">> \o ERROR_TOKEN
    /\ ret.kind = "return"
    /\ ret.value.severity = SEVERITY_LEVEL_CRITICAL


(***************************************************************************)
(* Properties of the fail_func of the setup.py attributes.                 *)
(***************************************************************************)
FailFuncReturned(attrs) ==
    call.func = "fail_func" /\ call.attr \in attrs /\ ret # NoReturn

EndsWith(s, suffix) ==
    Len(s) >= Len(suffix) /\ SubSeq(s, Len(s) - Len(suffix) + 1, Len(s)) = suffix

HasCharacterOutside(s, allowed) == \E i \in 1..Len(s) : s[i] \notin allowed

\* an entry of the list names the dependency in one of its two spellings
NamesCircuits(install_requires) ==
    \E i \in 1..Len(install_requires) :
        \/ Contains(install_requires[i], RESILIENT_CIRCUITS_UNDERSCORE)
        \/ Contains(install_requires[i], RESILIENT_CIRCUITS_HYPHEN)

\* C13: the fail_func of install_requires returns False for every list with
\* an entry that names resilient_circuits or resilient-circuits and True for
\* every list with neither.
C13_InstallRequiresFailsWithoutCircuits ==
    FailFuncReturned({"install_requires"}) =>
        /\ ret.kind = "return"
        /\ ret.value = ~NamesCircuits(call.value)

\* the only spelling in the list is the one with the hyphen
C13_Witness ==
    /\ FailFuncReturned({"install_requires"})
    /\ \E i \in 1..Len(call.value) :
           Contains(call.value[i], RESILIENT_CIRCUITS_HYPHEN)
    /\ \A i \in 1..Len(call.value) :
           ~Contains(call.value[i], RESILIENT_CIRCUITS_UNDERSCORE)
    /\ ret = ReturnedValue(FALSE)

\* C14: the fail_func of python_requires returns False for ">=X.Y" with
\* (X, Y) at least (3, 6), True for ">=X.Y" with (X, Y) below (3, 6), and
\* raises SDKException for a value with another comparator.
C14_PythonRequiresFailsBelowMinimum ==
    FailFuncReturned({"python_requires"}) =>
        /\ \A major \in 0..MaxMajor, minor \in 0..MaxMinor :
               call.value = <<">", "=">> \o str_int(major) \o <<".">> \o str_int(minor) =>
                   ret = ReturnedValue(~(major > 3 \/ (major = 3 /\ minor >= 6)))
        /\ ~startswith(call.value, <<">", "=">>) => ret = Raised("SDKException")

\* ">=3.10": the minor number is above 6 and its first digit is below
C14_Witness ==
    /\ FailFuncReturned({"python_requires"})
    /\ call.value = <<">", "=", "3", ".", "1", "0">>
    /\ ret = ReturnedValue(FALSE)

\* C15: the fail_func of name reports no failure for a name of lowercase
\* letters, digits and underscores only, and a failure for a name with any
\* other character.
C15_NameFailsOutsideLowercaseDigitsUnderscore ==
    FailFuncReturned({"name"}) =>
        (Truthy(ret.value) <=>
            HasCharacterOutside(call.value,
                LowercaseLetters \cup {DecimalDigits[d] : d \in 1..10} \cup {"_"}))

\* C16: the fail_func of description and of long_description reports a
\* failure for every value that begins with "Resilient Circuits Components",
\* that text alone included, and no failure for any other value.
C16_DescriptionFailsOnDefaultPrefix ==
    FailFuncReturned(DescriptionAttributes) =>
        (Truthy(ret.value) <=> startswith(call.value, DEFAULT_DESCRIPTION))

\* C17 as stated: display_name, license and author fail exactly when the
\* value begins with "<<" or ends with ">>".
C17_PlaceholderFailsOnBeginOrEnd ==
    FailFuncReturned(PlaceholderAttributes) =>
        (Truthy(ret.value) <=>
            startswith(call.value, <<"<", "<">>) \/ EndsWith(call.value, <<">", ">">>))

\* C17: display_name, license and author fail exactly when the value begins
\* with "<<", ends with ">>", or ends with ">>" and one newline; author_email
\* fails exactly when the value holds "@example.com".
C17_PlaceholderAndExampleEmailFail ==
    /\ FailFuncReturned(PlaceholderAttributes) =>
           (Truthy(ret.value) <=>
               \/ startswith(call.value, <<"<", "<">>)
               \/ EndsWith(call.value, <<">", ">">>)
               \/ EndsWith(call.value, <<">", ">", "\n">>))
    /\ FailFuncReturned({"author_email"}) =>
           (Truthy(ret.value) <=> Contains(call.value, EXAMPLE_COM))

\* a value that ends with ">>" and a newline fails
C17_Witness ==
    /\ FailFuncReturned({"author"})
    /\ call.value = <<"x", ">", ">", "\n">>
    /\ Truthy(ret.value)


(***************************************************************************)
(* Properties of the selftest rules.                                       *)
(***************************************************************************)
\* the rule evaluated last is func, and call.input is what it has read
LastEvaluated(func) ==
    /\ call.func = "validate_selftest"
    /\ call.results # <<>>
    /\ call.results[Len(call.results)].func = func
    /\ call.input # [none |-> TRUE]

LastOutcome == call.results[Len(call.results)].outcome

\* a version major.minor.patch with numbers below 100, as one number
VersionNumber(version) ==
    version.release[1] * 10000 + version.release[2] * 100 + version.release[3]

CatalogOrder ==
    <<"selftest_validate_resilient_circuits_installed",
      "selftest_validate_package_installed",
      "selftest_validate_selftestpy_file_exists",
      "selftest_run_selftestpy">>

Passed(outcome) == outcome.kind = "return" /\ outcome.success

SelftestRunEntered == pc # "idle" \/ proc.state # "not started"

EvaluatedInOrder ==
    /\ Len(call.results) <= Len(CatalogOrder)
    /\ \A i \in 1..Len(call.results) :
           /\ call.results[i].func = CatalogOrder[i]
           /\ i < Len(call.results) => Passed(call.results[i].outcome)
    /\ SelftestRunEntered =>
           /\ Len(call.results) >= 3
           /\ \A i \in 1..3 : Passed(call.results[i].outcome)

\* C20: the selftest rules are evaluated in the order circuits installed,
\* package installed, selftest file exists, run selftest; a rule is
\* evaluated only when every rule before it has passed, nothing is evaluated
\* after the first rule that fails, and selftest_run_selftestpy is entered
\* (and its child started) only after the three rules before it passed.
C20_RulesInOrderUntilFirstFailure ==
    /\ [](call.func = "validate_selftest" => EvaluatedInOrder)
    /\ [][call.func = "validate_selftest" =>
              /\ call.state = "evaluating"
              /\ (call.results # <<>> => Passed(call.results[Len(call.results)].outcome))]_vars

\* the child of selftest_run_selftestpy runs after three passed rules
C20_Witness ==
    /\ call.func = "validate_selftest"
    /\ proc.state = "running"
    /\ Len(call.results) = 3
    /\ \A i \in 1..3 : Passed(call.results[i].outcome)


(***************************************************************************)
(* Properties of the Issues of all check functions.                        *)
(***************************************************************************)
\* the Issues the check functions have returned so far, in a list, each
\* with the function it comes from
IssuesProduced ==
    IF call.func = "validate_selftest"
    THEN LET returned == SelectSeq(call.results, LAMBDA r : r.outcome.kind = "return")
         IN  [i \in 1..Len(returned) |->
                 [func |-> returned[i].func, issue |-> returned[i].outcome.issue]]
    ELSE IF ret.kind = "return" THEN <<[func |-> call.func, issue |-> ret.value]>>
    ELSE <<>>

SelftestChecks ==
    {"selftest_validate_resilient_circuits_installed",
     "selftest_validate_package_installed",
     "selftest_validate_selftestpy_file_exists",
     "selftest_run_selftestpy"}

\* the Issues whose solution is a template filled in with values
HasFormattedSolution(p) ==
    \/ /\ p.func = "selftest_validate_package_installed"
       /\ p.issue.severity # SEVERITY_LEVEL_DEBUG
    \/ /\ p.func \in {"package_files_apikey_pem", "package_files_validate_config_py",
                      "package_files_validate_customize_py"}
       /\ p.issue.severity = SEVERITY_LEVEL_DEBUG
    \/ /\ p.func = "package_files_validate_readme"
       /\ p.issue.name \in {package_files_README.fail_codegen_name,
                            package_files_README.fail_placeholder_name}

\* the text of the solution is the empty string
HasEmptySolution(p) ==
    IF HasFormattedSolution(p) THEN p.issue.solution.msg = ""
    ELSE p.issue.solution = ""

\* the Issue was built without a solution argument
HasNoSolutionArgument(p) ==
    ~HasFormattedSolution(p) /\ p.issue.solution = NOT_GIVEN

\* C18 as stated: an Issue at DEBUG has the empty string as its solution and
\* an Issue at CRITICAL, WARNING or INFO does not.
C18_PassHasEmptySolutionOthersHaveOne ==
    \A i \in 1..Len(IssuesProduced) : LET p == IssuesProduced[i] IN
        /\ p.issue.severity = SEVERITY_LEVEL_DEBUG => HasEmptySolution(p)
        /\ p.issue.severity \in {SEVERITY_LEVEL_CRITICAL, SEVERITY_LEVEL_WARN,
                                 SEVERITY_LEVEL_INFO} => ~HasEmptySolution(p)

\* C18: the pass Issues of the selftest checks, of the manifest check and of
\* the template-match check are at DEBUG with the empty string as solution;
\* the pass Issues of the apikey_permissions, config.py, customize.py and
\* README checks are at DEBUG with the pass_solution of their rule, which for
\* config.py holds the parsed config string and is not empty.  An Issue at
\* CRITICAL, WARNING or INFO never has the empty string as solution: it has
\* the solution of its rule, but for the connection-error Issue of
\* selftest_run_selftestpy, which is built without a solution argument.  The
\* link-syntax Issue of the README check is built with neither severity nor
\* solution.
C18_SolutionByCheckAndSeverity ==
    \A i \in 1..Len(IssuesProduced) : LET p == IssuesProduced[i] IN
        /\ p.issue.severity \in {SEVERITY_LEVEL_DEBUG, SEVERITY_LEVEL_CRITICAL,
                                 SEVERITY_LEVEL_WARN, SEVERITY_LEVEL_INFO, NOT_GIVEN}
        /\ p.issue.severity = SEVERITY_LEVEL_DEBUG =>
               /\ HasEmptySolution(p) <=>
                      p.func \in SelftestChecks \cup {"package_files_manifest",
                                                      "package_files_template_match"}
               /\ ~HasNoSolutionArgument(p)
               /\ p.func = "package_files_validate_config_py" =>
                      /\ p.issue.solution.msg = package_files_config_py.pass_solution
                      /\ p.issue.solution.args[1] # <<>>
               /\ p.func = "package_files_apikey_pem" =>
                      p.issue.solution.msg = package_files_apikey_permissions.pass_solution
               /\ p.func = "package_files_validate_customize_py" =>
                      p.issue.solution.msg = package_files_customize_py.pass_solution
               /\ p.func = "package_files_validate_readme" =>
                      p.issue.solution = package_files_README.pass_solution
        /\ p.issue.severity \in {SEVERITY_LEVEL_CRITICAL, SEVERITY_LEVEL_WARN,
                                 SEVERITY_LEVEL_INFO} =>
               /\ ~HasEmptySolution(p)
               /\ HasNoSolutionArgument(p) <=>
                      /\ p.func = "selftest_run_selftestpy"
                      /\ p.issue.description.msg = selftest_attributes_3.error_msg
        /\ p.issue.severity = NOT_GIVEN =>
               /\ p.func = "package_files_validate_readme"
               /\ HasNoSolutionArgument(p)

\* the pass Issue of the config.py check with a config string in its solution
C18_Witness ==
    \E i \in 1..Len(IssuesProduced) : LET p == IssuesProduced[i] IN
        /\ p.func = "package_files_validate_config_py"
        /\ p.issue.severity = SEVERITY_LEVEL_DEBUG
        /\ p.issue.solution.args[1] # <<>>
        /\ ~HasEmptySolution(p)


(***************************************************************************)
(* Properties of a check function called twice.                            *)
(***************************************************************************)
\* the second run of selftest_run_selftestpy has ended, and so has the
\* first, with the same child: started or not, same exit code, same output
SecondRunSameChild ==
    /\ call.func = "selftest_run_selftestpy"
    /\ call.run = 2
    /\ pc = "done"
    /\ proc.state = call.first.proc.state
    /\ proc.state = "exited" =>
           /\ proc.returncode = call.first.proc.returncode
           /\ proc.stdout = call.first.proc.stdout
           /\ proc.stderr = call.first.proc.stderr

ChildAppConfigFile == IF path_app_config = None THEN "" ELSE path_app_config

\* C22: APP_CONFIG_FILE holds path_app_config (or "") while the child runs,
\* and holds "" when selftest_run_selftestpy has returned an Issue or raised
\* an exception.
C22_AppConfigFileEmptyAfterCall ==
    /\ proc.state = "running" => environ = ChildAppConfigFile
    /\ pc = "done" => environ = ""

(***************************************************************************)
(* Properties of the polling loop of selftest_run_selftestpy.              *)
(***************************************************************************)
\* C23: while the child runs, selftest_run_selftestpy is in its polling loop
\* and has no result; it is past the loop only when the child has exited, so
\* a child that never exits keeps the call in the loop for ever.
C23_ReturnsOnlyAfterChildExit ==
    /\ proc.state = "running" => pc = "poll" /\ result = None
    /\ pc \in {"unset_env", "communicate", "classify"} => proc.state = "exited"
    /\ (pc = "done" /\ proc.state # "not started") => proc.state = "exited"

\* the child is running and the call is polling
C23_Witness ==
    /\ proc.state = "running"
    /\ pc = "poll"
    /\ result = None

(***************************************************************************)
(* Properties of the success flag of the selftest check functions.         *)
(***************************************************************************)
\* what the selftest check functions evaluated so far returned
SelftestReturns ==
    SelectSeq(call.results, LAMBDA r : r.outcome.kind = "return")

\* C28: a selftest check function returns True exactly with an Issue at
\* DEBUG whose solution is the empty string, and False exactly with an Issue
\* at CRITICAL.
C28_SuccessIffDebugFailureIffCritical ==
    \A i \in 1..Len(SelftestReturns) :
        LET r == SelftestReturns[i]
            p == [func |-> r.func, issue |-> r.outcome.issue]
        IN  /\ r.func \in SelftestChecks
            /\ r.outcome.success <=>
                   (p.issue.severity = SEVERITY_LEVEL_DEBUG /\ HasEmptySolution(p))
            /\ ~r.outcome.success <=> p.issue.severity = SEVERITY_LEVEL_CRITICAL

\* three functions returned True and selftest_run_selftestpy returned False
\* for a selftest that is not implemented
C28_Witness ==
    /\ Len(SelftestReturns) = 4
    /\ \A i \in 1..3 : SelftestReturns[i].outcome.success
    /\ SelftestReturns[4].func = "selftest_run_selftestpy"
    /\ SelftestReturns[4].outcome.issue.name = selftest_attributes_3.missing_name
    /\ ~SelftestReturns[4].outcome.success

(***************************************************************************)
(* Properties of the value the package-file check functions return.        *)
(***************************************************************************)
PackageFileChecks ==
    {"package_files_manifest", "package_files_apikey_pem",
     "package_files_template_match", "package_files_validate_config_py",
     "package_files_validate_customize_py", "package_files_validate_readme"}

\* the value is an SDKValidateIssue
IsSDKValidateIssue(value) ==
    \A field \in {"name", "description", "severity", "solution"} : field \in DOMAIN value

\* C26: a package-file check function returns a sequence of length 1 whose
\* first element is an SDKValidateIssue.
C26_ReturnsListOfOneIssue ==
    (ret.kind = "return" /\ call.func \in PackageFileChecks) =>
        /\ ~IsSDKValidateIssue(ret.value)
        /\ Len(ret.value) = 1
        /\ IsSDKValidateIssue(ret.value[1])

(***************************************************************************)
(* Properties of the polling loop and the pipes of the child.              *)
(***************************************************************************)
\* the child has output left and every pipe it has output for is full
ChildBlockedOnFullPipe ==
    /\ proc.state = "running"
    /\ proc.to_stdout # <<>> \/ proc.to_stderr # <<>>
    /\ proc.to_stdout # <<>> => Len(proc.pipe_stdout) = PipeCapacity
    /\ proc.to_stderr # <<>> => Len(proc.pipe_stderr) = PipeCapacity

\* C27: in no state is the child blocked writing to a full pipe while the
\* parent is in its polling loop.
C27_ChildNeverBlockedWhilePolling ==
    ~(pc = "poll" /\ ChildBlockedOnFullPipe)

(***************************************************************************)
(* Properties of run() and its file lock.                                  *)
(***************************************************************************)
\* process p is at line 277 or 278: constructing or running the App
InLockedRegion(p) == circuits.run[p].pc \in {"App", "App.run"}

\* process p has left run(), by return or by exception
RunEnded(p) == circuits.run[p].pc = "done"

\* C24: at most one process is constructing or running the App, and the one
\* that is holds the file lock.
C24_OneAppAtATime ==
    /\ \A p, q \in Procs : (InLockedRegion(p) /\ InLockedRegion(q)) => p = q
    /\ \A p \in Procs : InLockedRegion(p) => circuits.locked_by = p

\* a process runs the App while another has tried the lock and failed
C24_Witness ==
    \E p, q \in Procs :
        /\ circuits.run[p].pc = "App.run"
        /\ circuits.run[q].pc = "acquire"
        /\ circuits.run[q].polls > 0

\* the tries of process p have all found the lock held, the timeout has
\* passed, and the lock is held at the next try
TimeoutPassed(p) ==
    /\ circuits.run[p].pc = "acquire"
    /\ circuits.run[p].polls = MaxPolls
    /\ circuits.locked_by # 0

\* C25: a process that found the lock held for the whole timeout gets
\* filelock.Timeout at its next try (if opening the lock file does not fail
\* with OSError) and tries no more; a process that got filelock.Timeout has
\* no App, prints the failure to acquire the lock and returns from run()
\* without an exception.
C25_TimeoutReportedWithoutApp ==
    /\ [](\A p \in Procs :
            /\ circuits.run[p].polls <= MaxPolls
            /\ circuits.run[p].exception = "Timeout" =>
                   /\ circuits.run[p].application = None
                   /\ circuits.run[p].polls = MaxPolls
                   /\ circuits.run[p].pc \in {"except Timeout", "done"}
                   /\ RunEnded(p) =>
                          /\ circuits.run[p].printed = FAILED_TO_ACQUIRE
                          /\ circuits.run[p].outcome = "returned")
    /\ [][\A p \in Procs :
            (TimeoutPassed(p) /\ circuits'.run[p] # circuits.run[p]) =>
                /\ circuits'.run[p].pc \in {"except Timeout", "except OSError"}
                /\ circuits'.locked_by = circuits.locked_by]_vars

\* a process has returned from run() after filelock.Timeout while another
\* is still running the App
C25_Witness ==
    \E p, q \in Procs :
        /\ RunEnded(p)
        /\ circuits.run[p].exception = "Timeout"
        /\ circuits.run[p].outcome = "returned"
        /\ circuits.run[q].pc = "App.run"

\* C29: a process that has left the with block (it is in a handler or has
\* left run()) does not hold the lock: the lock is held only by a process
\* that is constructing or running the App, so another run() can take it.
C29_LockReleasedOnLeaving ==
    /\ \A p \in Procs : ~InLockedRegion(p) => circuits.locked_by # p
    /\ circuits.locked_by # 0 => InLockedRegion(circuits.locked_by)

\* App.run() of one process raised an exception that left run(), and
\* another process holds the lock
C29_Witness ==
    \E p, q \in Procs :
        /\ RunEnded(p)
        /\ circuits.run[p].raised_at = "App.run"
        /\ circuits.run[p].outcome = "raised"
        /\ circuits.locked_by = q
        /\ InLockedRegion(q)

\* C30: no run() ends with filelock.Timeout or OSError propagated; an
\* OSError of App() or App.run() is reported as 'Unable to lock' and run()
\* returns; an exception of another type leaves run().
C30_NoOSErrorLeavesRun ==
    \A p \in Procs : RunEnded(p) =>
        /\ circuits.run[p].outcome = "raised" =>
               circuits.run[p].exception \notin {"Timeout", "OSError"}
        /\ (/\ circuits.run[p].exception = "OSError"
            /\ circuits.run[p].raised_at \in {"App", "App.run"}) =>
               /\ circuits.run[p].printed = UNABLE_TO_LOCK
               /\ circuits.run[p].outcome = "returned"
        /\ circuits.run[p].exception = "Exception" =>
               circuits.run[p].outcome = "raised"

=============================================================================
